---- MODULE Spec2Model ----
(***************************************************************************)
(* A model of the streaming chat engine of the pixel repository:           *)
(*   - RateLimiter            (src/lib/rateLimiter.ts)                     *)
(*   - FrameParser            (src/workers/sseWorker.ts)                   *)
(*   - BatchAccumulator       (src/unnamed/part_017, the pool's worker)    *)
(*   - WorkerPool             (src/types/dashboardStore.ts)                *)
(*   - useChat orchestrator   (src/hooks/usePlan.ts, lines 761-1582)       *)
(* Strings are sequences of one-character strings, so that split, trim,    *)
(* slice and concatenation are computed as the code computes them.         *)
(***************************************************************************)
EXTENDS Integers, Sequences, FiniteSets, TLC

VARIABLES
  \* RateLimiter
  requests,     \* RateLimiter.requests: the admission timestamps
  now,          \* Date.now()
  ticks,        \* number of clock advances taken (bounded)
  rlLast,       \* what the last canMakeRequest() call saw and returned
  \* FrameParser
  fpInput,      \* the whole frame sequence the service sends
  fpRest,       \* the part of fpInput not yet delivered
  fpBuffer,     \* the worker's module-level carry buffer
  fpOut,        \* the packets posted so far, concatenated over the invocations
  fpPosts,      \* the packet arrays posted, one per posting invocation
  \* WorkerPool
  pool,         \* the WorkerPool, its promises and its workers' message queues
  \* BatchAccumulator
  ba,           \* one worker: the batch posted to it, its streamingStates and
                \* the updates it has posted
  accum,        \* one worker over time: its streamingStates, how long each
                \* entry has been idle, the cleanup interval, the last message
  \* DebouncedNotifier
  dn,           \* one debounced notifier: its timer, its pending flag, the
                \* deliveries its subscribers have received
  \* useChat
  chat          \* one chat session: its store, the hook's refs, the append calls,
                \* the hook's pool and the accumulators of that pool's workers

rlVars == <<requests, now, ticks, rlLast>>
fpVars == <<fpInput, fpRest, fpBuffer, fpOut, fpPosts>>
auxVars == <<ba, accum, dn>>
vars == <<rlVars, fpVars, pool, auxVars, chat>>

(***************************************************************************)
(* Strings                                                                 *)
(***************************************************************************)
NL == "\n"
WhiteSpace == {" ", "\n", "\t", "\r"}

StartsWith(s, p) == Len(s) >= Len(p) /\ SubSeq(s, 1, Len(p)) = p
EndsWith(s, p) == Len(s) >= Len(p) /\ SubSeq(s, Len(s) - Len(p) + 1, Len(s)) = p
Slice(s, n) == SubSeq(s, n + 1, Len(s))
Includes(s, c) == \E i \in DOMAIN s : s[i] = c

RECURSIVE Trim(_)
Trim(s) ==
  IF s = <<>> THEN s
  ELSE IF s[1] \in WhiteSpace THEN Trim(Tail(s))
  ELSE IF s[Len(s)] \in WhiteSpace THEN Trim(SubSeq(s, 1, Len(s) - 1))
  ELSE s

\* String.prototype.split("\n"): always at least one element
RECURSIVE SplitNL(_)
SplitNL(s) ==
  IF ~Includes(s, NL) THEN <<s>>
  ELSE LET i == CHOOSE k \in DOMAIN s : s[k] = NL /\ \A j \in 1..(k - 1) : s[j] # NL
       IN  <<SubSeq(s, 1, i - 1)>> \o SplitNL(SubSeq(s, i + 1, Len(s)))

\* Array.prototype.join("\n")
RECURSIVE JoinNL(_)
JoinNL(ls) ==
  IF ls = <<>> THEN <<>>
  ELSE IF Len(ls) = 1 THEN ls[1]
  ELSE ls[1] \o <<NL>> \o JoinNL(Tail(ls))

(***************************************************************************)
(* RateLimiter                                                             *)
(***************************************************************************)
RATE_LIMIT_REQUESTS == 100
RATE_LIMIT_WINDOW_MS == 60000
MaxTicks == 2

\* A plausible slip: the window boundary counted as still inside the window.
PurgeInclusive(reqs, t) == SelectSeq(reqs, LAMBDA x : t - x <= RATE_LIMIT_WINDOW_MS)

\* this.requests.filter((time) => now - time < CONFIG.RATE_LIMIT_WINDOW_MS)
Purge(reqs, t) == SelectSeq(reqs, LAMBDA x : t - x < RATE_LIMIT_WINDOW_MS)

\* canMakeRequest(): the returned boolean and the new this.requests
CanMakeRequest(reqs, t) ==
  LET kept == Purge(reqs, t)
  IN  IF Len(kept) >= RATE_LIMIT_REQUESTS
        THEN [ok |-> FALSE, requests |-> kept]
        ELSE [ok |-> TRUE, requests |-> Append(kept, t)]

\* what a caller can observe of the timestamps before a call
CountInWindow(reqs, t) ==
  Cardinality({i \in DOMAIN reqs : t - reqs[i] < RATE_LIMIT_WINDOW_MS})
NoCallYet == [called |-> FALSE, ok |-> FALSE, inWindow |-> 0, before |-> 0]

RLInit ==
  /\ requests = <<>>
  /\ now = 0
  /\ ticks = 0
  /\ rlLast = NoCallYet

RLCall ==
  LET r == CanMakeRequest(requests, now)
  IN  /\ requests' = r.requests
      /\ rlLast' = [called |-> TRUE, ok |-> r.ok,
                    inWindow |-> CountInWindow(requests, now),
                    before |-> Len(requests)]
      /\ UNCHANGED <<now, ticks, fpVars, pool, auxVars, chat>>

\* time passes: by one millisecond, or by one millisecond less than the window
RLTick ==
  \E d \in {1, RATE_LIMIT_WINDOW_MS - 1} :
    /\ ticks < MaxTicks
    /\ ticks' = ticks + 1
    /\ now' = now + d
    /\ rlLast' = NoCallYet
    /\ UNCHANGED <<requests, fpVars, pool, auxVars, chat>>

(***************************************************************************)
(* FrameParser (sseWorker.ts)                                              *)
(***************************************************************************)
DataPrefix == <<"d", "a", "t", "a", ":", " ">>
DoneSentinel == <<"[", "D", "O", "N", "E", "]">>

\* A plausible slip: every data line is pushed as a packet of its own.
ParseLineEach(acc, raw) ==
  LET line == Trim(raw)
  IN  IF StartsWith(line, DataPrefix)
        THEN LET content == Slice(line, 6)
             IN  IF content = DoneSentinel
                   THEN [acc EXCEPT !.clear = TRUE]
                   ELSE [acc EXCEPT !.packets = Append(@, content)]
      ELSE acc

\* One step of the for-loop of parseSSEData over a raw line.
\* acc = [packets, currentData, clear]; clear: the sentinel reset `buffer`.
ParseLine(acc, raw) ==
  LET line == Trim(raw)
  IN  IF StartsWith(line, DataPrefix)
        THEN LET content == Slice(line, 6)
             IN  IF content = DoneSentinel
                   THEN [acc EXCEPT !.clear = TRUE]
                   ELSE [acc EXCEPT !.currentData = Append(@, content)]
      ELSE IF line = <<>> /\ Len(acc.currentData) > 0
        THEN [acc EXCEPT !.packets = Append(@, JoinNL(acc.currentData)),
                         !.currentData = <<>>]
      ELSE acc

RECURSIVE ParseLines(_, _)
ParseLines(acc, lines) ==
  IF lines = <<>> THEN acc ELSE ParseLines(ParseLine(acc, lines[1]), Tail(lines))

\* parseSSEData(data): the packets, and whether it cleared the carry buffer
parseSSEData(data) ==
  LET acc == ParseLines([packets |-> <<>>, currentData |-> <<>>, clear |-> FALSE],
                        SplitNL(data))
  IN  [packets |-> IF Len(acc.currentData) > 0
                     THEN Append(acc.packets, JoinNL(acc.currentData))
                     ELSE acc.packets,
       clear |-> acc.clear]

\* The worker's message handler: [buffer, packets, posted]
FrameHandler(buf, data) ==
  LET whole == buf \o data
      lines == SplitNL(whole)
      keep == ~EndsWith(data, <<NL>>)
      held == IF keep THEN lines[Len(lines)] ELSE <<>>
      complete == JoinNL(IF keep THEN SubSeq(lines, 1, Len(lines) - 1) ELSE lines)
  IN  IF Trim(complete) # <<>>
        THEN LET r == parseSSEData(complete \o <<NL>>)
             IN  [buffer |-> IF r.clear THEN <<>> ELSE held,
                  packets |-> r.packets,
                  posted |-> Len(r.packets) > 0]
        ELSE [buffer |-> held, packets |-> <<>>, posted |-> FALSE]

\* The frames of the wire format, as lines (without their newline)
LineDataA == DataPrefix \o <<"a">>
LineDataB == DataPrefix \o <<"b">>
LineDone == DataPrefix \o DoneSentinel
LineComment == <<":", "k">>
LineField == <<"i", "d", ":", "1">>

\* An event: one or more lines, closed by a blank line
FPEvents ==
  { <<LineDataA>>, <<LineDataB>>, <<LineDataA, LineDataB>>, <<LineComment>>,
    <<LineField, LineDataB>>, <<LineDone>> }
EventText(ev) == JoinNL(ev) \o <<NL, NL>>
MaxEvents == 2
RECURSIVE EventSeqs(_)
EventSeqs(n) ==
  IF n = 0 THEN {<<>>}
  ELSE LET shorter == EventSeqs(n - 1)
       IN  shorter \cup {Append(s, e) : s \in {x \in shorter : Len(x) = n - 1}, e \in FPEvents}
RECURSIVE FramesText(_)
FramesText(evs) == IF evs = <<>> THEN <<>> ELSE EventText(evs[1]) \o FramesText(Tail(evs))
FPInputs == {FramesText(evs) : evs \in EventSeqs(MaxEvents) \ {<<>>}}

\* the packets of the whole input fed in one invocation
FPWhole(input) == FrameHandler(<<>>, input).packets

FPInit ==
  /\ fpInput \in FPInputs
  /\ fpRest = fpInput
  /\ fpBuffer = <<>>
  /\ fpOut = <<>>
  /\ fpPosts = 0

\* the next chunk of the stream arrives: any non-empty prefix of what is left
FPFeed ==
  \E k \in 1..Len(fpRest) :
    LET r == FrameHandler(fpBuffer, SubSeq(fpRest, 1, k))
    IN  /\ fpRest' = SubSeq(fpRest, k + 1, Len(fpRest))
        /\ fpBuffer' = r.buffer
        /\ fpOut' = fpOut \o r.packets
        /\ fpPosts' = fpPosts + (IF r.posted THEN 1 ELSE 0)
        /\ UNCHANGED <<fpInput, rlVars, pool, auxVars, chat>>


(***************************************************************************)
(* WorkerPool (workerManagement)                                           *)
(* pool is the WorkerPool object together with the promises execute() has  *)
(* returned and the message queues of its worker threads:                  *)
(*   available  the availableWorkers Set, in insertion order               *)
(*   busy       busyWorkers: worker -> the task whose timeout it holds, 0  *)
(*   timers     the timeouts armed and neither fired nor cleared           *)
(*   listeners  worker -> the tasks whose message/error listeners are on it*)
(*   inbox      worker -> the tasks posted to it and not yet answered      *)
(*   promise    task -> pending | resolved | rejected                      *)
(*   replyOf    task -> the task whose data produced the reply it got      *)
(*   calls      task -> how often its resolve/reject has been called       *)
(*   aged       the queued tasks submitted more than 30 s ago              *)
(*   hardwareConcurrency  navigator.hardwareConcurrency of the page        *)
(*   terminatedAt  the number of tasks submitted before terminate()        *)
(*   constructed   how many pools getWorkerPool() has constructed so far   *)
(***************************************************************************)
POOL_SIZE_CAP == 4
QUEUE_CAP == 100
MaxHardwareConcurrency == 2
MaxTasks == 3
MaxPools == 2
Keys == {1, 2}

Min(a, b) == IF a < b THEN a ELSE b
Range(s) == {s[i] : i \in DOMAIN s}
\* Set.prototype.add on an insertion-ordered Set
SetAdd(s, x) == IF x \in Range(s) THEN s ELSE Append(s, x)
Remove(s, x) == SelectSeq(s, LAMBDA y : y # x)

\* constructor / initialize(): poolSize = Math.min(CONFIG.WORKER_POOL_SIZE, 4)
NewPool(hardwareConcurrency) ==
  LET size == Min(hardwareConcurrency, POOL_SIZE_CAP)
  IN  [workers |-> 1..size,
       available |-> [i \in 1..size |-> i],
       busy |-> [w \in 1..size |-> 0],
       timers |-> {},
       taskQueue |-> <<>>,
       isTerminated |-> FALSE,
       listeners |-> [w \in 1..size |-> <<>>],
       inbox |-> [w \in 1..size |-> <<>>],
       promise |-> <<>>,
       replyOf |-> <<>>,
       calls |-> <<>>,
       key |-> <<>>,
       aged |-> {},
       settleLog |-> <<>>,
       hardwareConcurrency |-> hardwareConcurrency,
       terminatedAt |-> 0,
       constructed |-> 1]

\* task.resolve / task.reject: a promise settles on the first call only
Settle(p, t, outcome, from) ==
  IF p.promise[t] = "pending"
    THEN [p EXCEPT !.promise[t] = outcome, !.replyOf[t] = from,
                   !.calls[t] = @ + 1, !.settleLog = Append(@, t)]
    ELSE [p EXCEPT !.calls[t] = @ + 1]

\* runTask(task)
RunTask(p, t) ==
  IF p.available = <<>> THEN p
  ELSE LET w == p.available[1]
       IN  [p EXCEPT !.available = Tail(@),
                     !.timers = @ \cup {<<w, t>>},
                     !.busy[w] = t,
                     !.listeners[w] = Append(@, t),
                     !.inbox[w] = Append(@, t)]

\* A plausible slip: the queue is not drained when a worker becomes free.
ProcessNextTaskNever(p) == p

\* processNextTask()
RECURSIVE ProcessNextTask(_)
ProcessNextTask(p) ==
  IF Len(p.taskQueue) > 0 /\ Len(p.available) > 0
    THEN LET t == Head(p.taskQueue)
             q == [p EXCEPT !.taskQueue = Tail(@), !.aged = @ \ {t}]
         IN  IF t \in p.aged
               THEN ProcessNextTask(Settle(q, t, "rejected", 0))
               ELSE RunTask(q, t)
    ELSE p

\* cleanupWorkerTask(worker, handleMessage, handleError) of task t
CleanupWorkerTask(p, w, t) ==
  LET b == p.busy[w]
  IN  [p EXCEPT !.listeners[w] = Remove(@, t),
                !.timers = IF b # 0 THEN @ \ {<<w, b>>} ELSE @,
                !.busy[w] = 0,
                !.available = SetAdd(@, w)]

\* handleMessage of task t, on the reply the worker made for task `of`
HandleMessage(p, w, t, of, isError) ==
  ProcessNextTask(
    Settle(CleanupWorkerTask(p, w, t), t,
           IF isError THEN "rejected" ELSE "resolved", of))

\* a message event of worker w reaches every listener registered on it
RECURSIVE DispatchMessage(_, _, _, _, _)
DispatchMessage(p, w, ls, of, isError) ==
  IF ls = <<>> THEN p
  ELSE DispatchMessage(HandleMessage(p, w, ls[1], of, isError), w, Tail(ls), of, isError)

\* the worker answers the oldest task posted to it
OnWorkerReply(p, w, isError) ==
  LET of == Head(p.inbox[w])
      q == [p EXCEPT !.inbox[w] = Tail(@)]
  IN  DispatchMessage(q, w, p.listeners[w], of, isError)

\* A plausible slip: the timed-out worker is dropped from the busy map but
\* not put back into the available set.
HandleWorkerTimeoutLoseWorker(p, w, t) ==
  ProcessNextTask(
    Settle([p EXCEPT !.timers = @ \ {<<w, t>>},
                     !.busy[w] = 0],
           t, "rejected", 0))

\* handleWorkerTimeout(worker, task)
HandleWorkerTimeout(p, w, t) ==
  ProcessNextTask(
    Settle([p EXCEPT !.timers = @ \ {<<w, t>>},
                     !.busy[w] = 0,
                     !.available = SetAdd(@, w)],
           t, "rejected", 0))

\* A plausible slip: the queue is full at the cap, not above it.
ExecuteInclusive(p, k) ==
  LET t == Len(p.promise) + 1
      q == [p EXCEPT !.promise = Append(@, "pending"), !.replyOf = Append(@, 0),
                     !.calls = Append(@, 0), !.key = Append(@, k)]
  IN  IF p.isTerminated THEN Settle(q, t, "rejected", 0)
      ELSE IF Len(p.available) > 0 THEN RunTask(q, t)
      ELSE IF Len(p.taskQueue) >= QUEUE_CAP THEN Settle(q, t, "rejected", 0)
      ELSE [q EXCEPT !.taskQueue = Append(@, t)]

\* execute(data): the pool after the call; the new task is Len(promise)
Execute(p, k) ==
  LET t == Len(p.promise) + 1
      q == [p EXCEPT !.promise = Append(@, "pending"), !.replyOf = Append(@, 0),
                     !.calls = Append(@, 0), !.key = Append(@, k)]
  IN  IF p.isTerminated THEN Settle(q, t, "rejected", 0)
      ELSE IF Len(p.available) > 0 THEN RunTask(q, t)
      ELSE IF Len(p.taskQueue) > QUEUE_CAP THEN Settle(q, t, "rejected", 0)
      ELSE [q EXCEPT !.taskQueue = Append(@, t)]

\* taskQueue.forEach(task => task.reject(...))
RECURSIVE RejectAll(_, _)
RejectAll(p, q) ==
  IF q = <<>> THEN p ELSE RejectAll(Settle(p, q[1], "rejected", 0), Tail(q))

\* A plausible slip: the queue is emptied without rejecting its tasks.
TerminateDropQueue(p) ==
  [p EXCEPT !.isTerminated = TRUE,
            !.timers = @ \ {<<w, p.busy[w]>> : w \in {v \in DOMAIN p.busy : p.busy[v] # 0}},
            !.busy = [w \in DOMAIN @ |-> 0],
            !.inbox = [w \in DOMAIN @ |-> <<>>],
            !.workers = {},
            !.available = <<>>,
            !.taskQueue = <<>>,
            !.aged = {},
            !.terminatedAt = IF p.isTerminated THEN @ ELSE Len(p.promise)]

\* terminate(): a terminated worker answers nothing any more
Terminate(p) ==
  RejectAll(
    [p EXCEPT !.isTerminated = TRUE,
              !.timers = @ \ {<<w, p.busy[w]>> : w \in {v \in DOMAIN p.busy : p.busy[v] # 0}},
              !.busy = [w \in DOMAIN @ |-> 0],
              !.inbox = [w \in DOMAIN @ |-> <<>>],
              !.workers = {},
              !.available = <<>>,
              !.taskQueue = <<>>,
              !.aged = {},
              !.terminatedAt = IF p.isTerminated THEN @ ELSE Len(p.promise)],
    p.taskQueue)

\* getWorkerPool(): the module-level pool after the call
GetWorkerPool(p) ==
  IF p.isTerminated
    THEN [NewPool(p.hardwareConcurrency) EXCEPT !.constructed = p.constructed + 1]
    ELSE p

PoolInit == \E hc \in 1..MaxHardwareConcurrency : pool = NewPool(hc)

PoolExecute ==
  \E k \in Keys :
    /\ Len(pool.promise) < MaxTasks
    /\ pool' = Execute(pool, k)
    /\ UNCHANGED <<rlVars, fpVars, auxVars, chat>>

PoolWorkerReply ==
  \E w \in pool.workers, isError \in BOOLEAN :
    /\ pool.inbox[w] # <<>>
    /\ pool' = OnWorkerReply(pool, w, isError)
    /\ UNCHANGED <<rlVars, fpVars, auxVars, chat>>

PoolTimeout ==
  \E tm \in pool.timers :
    /\ pool' = HandleWorkerTimeout(pool, tm[1], tm[2])
    /\ UNCHANGED <<rlVars, fpVars, auxVars, chat>>

PoolTerminate ==
  /\ pool' = Terminate(pool)
  /\ UNCHANGED <<rlVars, fpVars, auxVars, chat>>

PoolGet ==
  /\ pool.constructed < MaxPools
  /\ pool' = GetWorkerPool(pool)
  /\ UNCHANGED <<rlVars, fpVars, auxVars, chat>>

\* a queued task has waited for more than 30 s
PoolAge ==
  \E t \in Range(pool.taskQueue) \ pool.aged :
    /\ pool' = [pool EXCEPT !.aged = @ \cup {t}]
    /\ UNCHANGED <<rlVars, fpVars, auxVars, chat>>

\* A burst of submissions to a pool of one worker that answers slowly
MaxBurst == 104
BurstInit == pool = NewPool(1)

BurstExecute ==
  /\ Len(pool.promise) < MaxBurst
  /\ pool' = Execute(pool, 1)
  /\ UNCHANGED <<rlVars, fpVars, auxVars, chat>>

BurstWorkerReply ==
  \E w \in pool.workers :
    /\ pool.inbox[w] # <<>>
    /\ pool' = OnWorkerReply(pool, w, FALSE)
    /\ UNCHANGED <<rlVars, fpVars, auxVars, chat>>

\* A pool of one worker that answers after its tasks have timed out
MaxLateTasks == 4
LateInit == pool = NewPool(1)

LateExecute ==
  /\ Len(pool.promise) < MaxLateTasks
  /\ pool' = Execute(pool, 1)
  /\ UNCHANGED <<rlVars, fpVars, auxVars, chat>>

(***************************************************************************)
(* BatchAccumulator: the worker the pool hosts (part_017)                  *)
(* A packet is the payload of one data line.  A payload that is JSON is    *)
(* the record [type, text, state, status, id]; a payload that is not JSON  *)
(* has type "#malformed", the JSON values null, 42 and [1] have the types  *)
(* "#null", "#number" and "#array"; the sentinel has type "[DONE]".        *)
(***************************************************************************)
MAX_TEXT_LENGTH == 1000000
\* representatives of the class [\x00-\x08\x0B\x0C\x0E-\x1F\x7F]
ControlChars == {"<NUL>", "<BEL>", "<DEL>"}
TruncationMarker == <<".", ".", ".", " ", "[", "t", "r", "u", "n", "c", "a", "t", "e", "d", "]">>

Pkt(type, text, state, id) ==
  [type |-> type, text |-> text, state |-> state, status |-> "", id |-> id]
TextPkt(text) == Pkt("text", text, "", "")
FinishPkt == Pkt("finish", <<>>, "", "")
DonePkt == Pkt("[DONE]", <<>>, "", "")
ToolCallPkt(id, state) == Pkt("tool-call", <<>>, state, id)
MalformedPkt == Pkt("#malformed", <<>>, "", "")
NullPkt == Pkt("#null", <<>>, "", "")
NumberPkt == Pkt("#number", <<>>, "", "")
ArrayPkt == Pkt("#array", <<>>, "", "")

\* safeJsonParse(str): null for what JSON.parse throws on
safeJsonParse(str) == IF str.type \in {"#malformed", "[DONE]"} THEN NullPkt ELSE str
\* !parsed || typeof parsed !== "object": typeof [] is "object"
NotAnObject(parsed) == parsed.type \in {"#null", "#number"}
\* parsed.type, undefined ("") for a value that has no such property
TypeOf(parsed) == IF parsed.type = "#array" THEN "" ELSE parsed.type

\* A plausible slip: control characters are let through.
sanitizeTextKeep(text) == text

\* sanitizeText(text)
sanitizeText(text) == SelectSeq(text, LAMBDA ch : ch \notin ControlChars)

validateText(text) ==
  LET sanitized == sanitizeText(text)
  IN  IF Len(sanitized) > MAX_TEXT_LENGTH
        THEN SubSeq(sanitized, 1, MAX_TEXT_LENGTH) \o TruncationMarker
        ELSE sanitized

Update(type, data) == [type |-> type, data |-> data]
NewStreamingState ==
  [accumulatedText |-> <<>>, accumulatedReasoning |-> <<>>, accumulatedThinking |-> <<>>]
\* A plausible slip: the entry is kept.
DropKeyNone(f, k) == f

\* Map.prototype.delete / the delete operator
DropKey(f, k) == [x \in DOMAIN f \ {k} |-> f[x]]
PutKey(f, k, v) == [x \in DOMAIN f \cup {k} |-> IF x = k THEN v ELSE f[x]]

\* processChunk(data, assistantId, features, updates) on the worker's
\* streamingStates ss: r = [ss, updates]
processChunk(r, data, assistantId, features) ==
  IF NotAnObject(safeJsonParse(data)) THEN r
  ELSE
    LET parsed == safeJsonParse(data)
        ss == IF assistantId \in DOMAIN r.ss THEN r.ss
              ELSE PutKey(r.ss, assistantId, NewStreamingState)
        st == ss[assistantId]
    IN  IF parsed.type = "text" /\ parsed.text # <<>>
          THEN LET newText == validateText(parsed.text)
               IN  [ss |-> [ss EXCEPT ![assistantId].accumulatedText =
                                         validateText(@ \o newText)],
                    updates |-> Append(r.updates,
                                  Update("text", Pkt("text", newText, "streaming", "")))]
        ELSE IF parsed.type = "reasoning" /\ parsed.text # <<>> /\ features.reasoning
          THEN LET newText == validateText(parsed.text)
               IN  [ss |-> [ss EXCEPT ![assistantId].accumulatedReasoning =
                                         validateText(@ \o newText)],
                    updates |-> Append(r.updates,
                                  Update("reasoning", Pkt("reasoning", newText, "streaming", "")))]
        ELSE IF parsed.type = "thinking" /\ parsed.text # <<>> /\ features.thinking
          THEN LET newText == validateText(parsed.text)
               IN  [ss |-> [ss EXCEPT ![assistantId].accumulatedThinking =
                                         validateText(@ \o newText)],
                    updates |-> Append(r.updates,
                                  Update("thinking", Pkt("thinking", newText, "streaming", "")))]
        ELSE IF parsed.type = "finish"
          THEN [ss |-> DropKey(ss, assistantId),
                updates |->
                  r.updates
                  \o (IF st.accumulatedText # <<>>
                        THEN <<Update("text", Pkt("text", st.accumulatedText, "done", ""))>>
                        ELSE <<>>)
                  \o (IF st.accumulatedReasoning # <<>>
                        THEN <<Update("reasoning",
                                      Pkt("reasoning", st.accumulatedReasoning, "done", ""))>>
                        ELSE <<>>)
                  \o (IF st.accumulatedThinking # <<>>
                        THEN <<Update("thinking",
                                      Pkt("thinking", st.accumulatedThinking, "done", ""))>>
                        ELSE <<>>)
                  \o <<Update("finish", Pkt("finish", <<>>, "", ""))>>]
        ELSE [ss |-> ss, updates |-> Append(r.updates, Update(TypeOf(parsed), parsed))]

RECURSIVE processChunks(_, _, _, _)
processChunks(r, batch, assistantId, features) ==
  IF batch = <<>> THEN r
  ELSE processChunks(processChunk(r, batch[1], assistantId, features),
                     Tail(batch), assistantId, features)

\* processBatch(batch, assistantId, features): [ss, updates]
processBatch(ss, batch, assistantId, features) ==
  processChunks([ss |-> ss, updates |-> <<>>], batch, assistantId, features)

\* enabledFeatures with every feature off
NoFeatures ==
  [reasoning |-> FALSE, thinking |-> FALSE, toolCalling |-> FALSE,
   workflow |-> FALSE, fileHandling |-> FALSE]

\* One worker handed one batch: the packets a data line can carry
MaxBatch == 3
BatchPackets ==
  {TextPkt(<<"a">>), FinishPkt, ToolCallPkt("t1", "executing"),
   MalformedPkt, NullPkt, NumberPkt, ArrayPkt}
RECURSIVE Batches(_)
Batches(n) ==
  IF n = 0 THEN {<<>>}
  ELSE LET shorter == Batches(n - 1)
       IN  shorter \cup {Append(b, x) : b \in {y \in shorter : Len(y) = n - 1},
                                        x \in BatchPackets}
NewWorker(batch) == [batch |-> batch, ss |-> <<>>, updates |-> <<>>, posted |-> FALSE]
BAIdle == ba = NewWorker(<<>>)
BAInit == \E batch \in Batches(MaxBatch) \ {<<>>} : ba = NewWorker(batch)

\* the worker's message handler for {type: "process-batch", batch, assistantId}
BAProcess ==
  /\ ~ba.posted
  /\ LET r == processBatch(ba.ss, ba.batch, 2, NoFeatures)
     IN  ba' = [ba EXCEPT !.ss = r.ss, !.updates = r.updates, !.posted = TRUE]
  /\ UNCHANGED <<rlVars, fpVars, pool, accum, dn, chat>>

(***************************************************************************)
(* BatchAccumulator over time: the messages one worker handles and the     *)
(* periodic cleanup of its streamingStates (part_017 20-66, 247-270)       *)
(*   ss          streamingStates: message id -> accumulators               *)
(*   idle        message id -> Date.now() - lastUpdated of its entry, in   *)
(*               ms, not counted beyond MAX_BUFFER_AGE_MS + ClockStepMs    *)
(*   untilSweep  ms until the cleanup interval fires next                  *)
(*   features    the features every message of this session carries       *)
(*   handled     the number of messages handled                            *)
(*   last        the last event: a message (its id, batch, the updates     *)
(*               posted, ss before it) or a sweep (ss and idle before it)  *)
(*   log         the messages handled, in order: [assistantId, batch]      *)
(***************************************************************************)
MAX_BUFFER_AGE_MS == 30000
CLEANUP_INTERVAL_MS == 60000
ClockStepMs == 10000
MaxMessages == 2
AssistantIds == {1, 2}

ReasoningPkt(text) == Pkt("reasoning", text, "", "")
ThinkingPkt(text) == Pkt("thinking", text, "", "")
AccPackets ==
  {TextPkt(<<"a">>), TextPkt(<<"<BEL>", "b">>), ReasoningPkt(<<"r">>),
   ThinkingPkt(<<"t">>), FinishPkt, MalformedPkt}
AccBatches == {<<x>> : x \in AccPackets} \cup {<<x, y>> : x, y \in AccPackets}
FeatureSets ==
  {[NoFeatures EXCEPT !.reasoning = r, !.thinking = t] : r, t \in BOOLEAN}

NoEvent == [kind |-> "none"]
NewAccumulator(features) ==
  [ss |-> <<>>, idle |-> <<>>, untilSweep |-> CLEANUP_INTERVAL_MS,
   features |-> features, handled |-> 0, last |-> NoEvent, log |-> <<>>]

\* getStreamingState is reached by every packet that passes the parse guard
Touches(batch) == \E i \in DOMAIN batch : ~NotAnObject(safeJsonParse(batch[i]))

\* the message handler for {type: "process-batch", batch, assistantId, features}
HandleMessage017(a, batch, assistantId) ==
  LET r == processBatch(a.ss, batch, assistantId, a.features)
  IN  [a EXCEPT !.ss = r.ss,
                !.idle = [x \in DOMAIN r.ss |->
                            IF x = assistantId /\ Touches(batch) THEN 0 ELSE a.idle[x]],
                !.handled = @ + 1,
                !.log = Append(@, [assistantId |-> assistantId, batch |-> batch]),
                !.last = [kind |-> "message", assistantId |-> assistantId,
                          batch |-> batch, updates |-> r.updates, ss |-> a.ss]]

\* A plausible slip: an entry exactly at the maximum idle age is deleted.
SweepInclusive(a) ==
  LET keep == {x \in DOMAIN a.ss : ~(a.idle[x] >= MAX_BUFFER_AGE_MS)}
  IN  [a EXCEPT !.ss = [x \in keep |-> a.ss[x]],
                !.idle = [x \in keep |-> a.idle[x]],
                !.untilSweep = CLEANUP_INTERVAL_MS,
                !.last = [kind |-> "sweep", ss |-> a.ss, idle |-> a.idle]]

\* the setInterval callback of startCleanup
Sweep(a) ==
  LET keep == {x \in DOMAIN a.ss : ~(a.idle[x] > MAX_BUFFER_AGE_MS)}
  IN  [a EXCEPT !.ss = [x \in keep |-> a.ss[x]],
                !.idle = [x \in keep |-> a.idle[x]],
                !.untilSweep = CLEANUP_INTERVAL_MS,
                !.last = [kind |-> "sweep", ss |-> a.ss, idle |-> a.idle]]

AccIdle == accum = NewAccumulator(NoFeatures)
AccInit == \E features \in FeatureSets : accum = NewAccumulator(features)

AccHandle ==
  \E assistantId \in AssistantIds, batch \in AccBatches :
    /\ accum.handled < MaxMessages
    /\ accum' = HandleMessage017(accum, batch, assistantId)
    /\ UNCHANGED <<rlVars, fpVars, pool, ba, dn, chat>>

\* a session of text streams only, one packet to a message
GCInit == accum = NewAccumulator(NoFeatures)

GCHandle ==
  \E assistantId \in AssistantIds, pkt \in {TextPkt(<<"a">>), FinishPkt, MalformedPkt} :
    /\ accum.handled < MaxMessages
    /\ accum' = HandleMessage017(accum, <<pkt>>, assistantId)
    /\ UNCHANGED <<rlVars, fpVars, pool, ba, dn, chat>>

\* ClockStepMs pass
GCTick ==
  /\ accum.untilSweep > 0
  /\ LET step == Min(ClockStepMs, accum.untilSweep)
     IN  accum' = [accum EXCEPT
                     !.untilSweep = @ - step,
                     !.idle = [x \in DOMAIN @ |->
                                 Min(@[x] + step, MAX_BUFFER_AGE_MS + ClockStepMs)]]
  /\ UNCHANGED <<rlVars, fpVars, pool, ba, dn, chat>>

\* the cleanup interval fires
GCSweep ==
  /\ accum.untilSweep = 0
  /\ accum' = Sweep(accum)
  /\ UNCHANGED <<rlVars, fpVars, pool, ba, dn, chat>>

(***************************************************************************)
(* DebouncedNotifier (createDebouncedNotify, aiModels.ts 135-175)          *)
(*   timeoutId      whether the timer is armed                             *)
(*   pendingUpdate  the pending flag                                       *)
(*   window         ms left of the delay window the last armed timer       *)
(*                  opened; it keeps running down after a clearTimeout     *)
(*   heard          subscriber -> how often it has been called             *)
(*   calls          how often notify() has been called                     *)
(*   last           the last operation performed                           *)
(***************************************************************************)
UI_UPDATE_DEBOUNCE_MS == 16
MaxNotifies == 3
Subscribers == {1, 2}

NewNotifier ==
  [timeoutId |-> FALSE, pendingUpdate |-> FALSE, window |-> 0,
   heard |-> [l \in Subscribers |-> 0], calls |-> 0, last |-> "none"]

\* notify(id): listeners?.forEach(l => l())
NotifyAll(d) == [d EXCEPT !.heard = [l \in Subscribers |-> @[l] + 1]]

\* A plausible slip: every call restarts the timer.
DebouncedNotifyRestart(d) ==
  [d EXCEPT !.pendingUpdate = TRUE, !.timeoutId = TRUE,
            !.window = UI_UPDATE_DEBOUNCE_MS,
            !.calls = @ + 1, !.last = "notify"]

\* the returned object's notify()
DebouncedNotify(d) ==
  [d EXCEPT !.pendingUpdate = TRUE,
            !.timeoutId = TRUE,
            !.window = IF d.timeoutId THEN @ ELSE UI_UPDATE_DEBOUNCE_MS,
            !.calls = @ + 1, !.last = "notify"]

\* the setTimeout callback
TimerCallback(d) ==
  [(IF d.pendingUpdate THEN NotifyAll(d) ELSE d)
     EXCEPT !.pendingUpdate = FALSE, !.timeoutId = FALSE, !.last = "timer"]

\* A plausible slip: flush() delivers but leaves the timer armed.
FlushKeepTimer(d) ==
  [(IF d.pendingUpdate THEN NotifyAll(d) ELSE d)
     EXCEPT !.pendingUpdate = FALSE, !.last = "flush"]

\* the returned object's flush()
Flush(d) ==
  [(IF d.pendingUpdate THEN NotifyAll(d) ELSE d)
     EXCEPT !.pendingUpdate = FALSE, !.timeoutId = FALSE, !.last = "flush"]

\* the returned object's cleanup()
Cleanup(d) ==
  [d EXCEPT !.pendingUpdate = FALSE, !.timeoutId = FALSE, !.last = "cleanup"]

DNIdle == dn = NewNotifier
DNInit == dn = NewNotifier

DNNotify ==
  /\ dn.calls < MaxNotifies
  /\ dn' = DebouncedNotify(dn)
  /\ UNCHANGED <<rlVars, fpVars, pool, ba, accum, chat>>

\* one millisecond of the window passes
DNTick ==
  /\ dn.window > 0
  /\ dn' = [dn EXCEPT !.window = @ - 1]
  /\ UNCHANGED <<rlVars, fpVars, pool, ba, accum, chat>>

\* the timer is due and its callback runs
DNTimerFires ==
  /\ dn.timeoutId /\ dn.window = 0
  /\ dn' = TimerCallback(dn)
  /\ UNCHANGED <<rlVars, fpVars, pool, ba, accum, chat>>

DNFlush ==
  /\ dn' = Flush(dn)
  /\ UNCHANGED <<rlVars, fpVars, pool, ba, accum, chat>>

DNCleanup ==
  /\ dn' = Cleanup(dn)
  /\ UNCHANGED <<rlVars, fpVars, pool, ba, accum, chat>>

(***************************************************************************)
(* useChat: the session store and the hook (usePlan.ts 761-1582)           *)
(* chat is the session's store (messages, isLoading, error, rateLimiter),  *)
(* the hook's refs (chunkBatch, batchTimer, abortRef, textAccum,           *)
(* reasoningAccum), the append invocations (frames), the hook's            *)
(* WorkerPool with the data of its tasks and the streamingStates of its    *)
(* workers, and what the callbacks and the network have seen (cb).         *)
(* A read of the response delivers whole data lines: the carry buffer of   *)
(* the read loop joins a line split over two reads before the loop sees it.*)
(***************************************************************************)
BATCH_SIZE == 10
MAX_MESSAGE_HISTORY == 1000

Part(type, text, state) ==
  [type |-> type, text |-> text, state |-> state, status |-> "", id |-> ""]

\* A plausible slip: the lookup never finds the part.
FindIndexNone(parts, type) == 0

\* parts.findIndex((p) => p.type === type) + 1
FindIndex(parts, type) ==
  IF \E i \in DOMAIN parts : TypeOf(parts[i]) = type
    THEN CHOOSE i \in DOMAIN parts :
           TypeOf(parts[i]) = type /\ \A j \in 1..(i - 1) : TypeOf(parts[j]) # type
    ELSE 0

\* createMessage(role, content)
createMessage(id, role, content) ==
  [id |-> id, role |-> role, status |-> "idle",
   parts |-> IF content # <<>> THEN <<Part("text", content, "done")>> ELSE <<>>]

\* sanitizeInput(input)
sanitizeInput(input) == SelectSeq(input, LAMBDA ch : ch \notin ControlChars)

\* the body of result.updates.forEach in processBatchedChunks, for one update,
\* on a = [parts, textAccum, reasoningAccum]
ApplyUpdate(a, u, aid) ==
  IF u.type = "text"
    THEN LET idx == FindIndex(a.parts, "text")
             old == IF aid \in DOMAIN a.textAccum THEN a.textAccum[aid] ELSE <<>>
             fullText == old \o u.data.text
         IN  [a EXCEPT !.textAccum = PutKey(@, aid, fullText),
                       !.parts = IF idx > 0
                                   THEN [@ EXCEPT ![idx].text = fullText,
                                                  ![idx].state = "streaming"]
                                   ELSE Append(@, Part("text", fullText, "streaming"))]
  ELSE IF u.type \in {"reasoning", "thinking"}
    THEN LET accKey == <<aid, u.type>>
             old == IF accKey \in DOMAIN a.reasoningAccum
                      THEN a.reasoningAccum[accKey] ELSE <<>>
             full == old \o u.data.text
             idx == FindIndex(a.parts, u.type)
         IN  [a EXCEPT !.reasoningAccum = PutKey(@, accKey, full),
                       !.parts = IF idx > 0
                                   THEN [@ EXCEPT ![idx].text = full,
                                                  ![idx].state = "streaming"]
                                   ELSE Append(@, Part(u.type, full, "streaming"))]
  ELSE IF u.type = "finish"
    THEN [a EXCEPT !.parts = [i \in DOMAIN @ |->
                                IF @[i].type \in {"text", "reasoning", "thinking"}
                                  THEN [@[i] EXCEPT !.state = "done"] ELSE @[i]],
                   !.textAccum = DropKey(@, aid),
                   !.reasoningAccum = [k \in {x \in DOMAIN @ : x[1] # aid} |-> @[k]]]
  ELSE LET idx == FindIndex(a.parts, u.type)
       IN  [a EXCEPT !.parts = IF idx > 0 THEN [@ EXCEPT ![idx] = u.data]
                                          ELSE Append(@, u.data)]

RECURSIVE ApplyUpdates(_, _, _)
ApplyUpdates(a, us, aid) ==
  IF us = <<>> THEN a ELSE ApplyUpdates(ApplyUpdate(a, us[1], aid), Tail(us), aid)

HasMessage(c, id) == \E i \in DOMAIN c.messages : c.messages[i].id = id
MessageOf(c, id) == c.messages[CHOOSE i \in DOMAIN c.messages : c.messages[i].id = id]
RemoveMessage(msgs, id) == SelectSeq(msgs, LAMBDA m : m.id # id)

OpsOfType(updates, type) == Len(SelectSeq(updates, LAMBDA u : u.type = type))

\* A plausible slip: a result whose message is gone is applied to a new
\* message of that id.
ApplyBatchResultRecreate(c, aid, updates) ==
  LET base == IF HasMessage(c, aid) THEN c
              ELSE [c EXCEPT !.messages = Append(@, createMessage(aid, "assistant", <<>>)),
                             !.cb.stale = @ + 1]
      a == ApplyUpdates([parts |-> MessageOf(base, aid).parts,
                         textAccum |-> c.textAccum,
                         reasoningAccum |-> c.reasoningAccum], updates, aid)
  IN  [base EXCEPT !.messages = [i \in DOMAIN @ |->
                                   IF @[i].id = aid
                                     THEN [@[i] EXCEPT !.parts = a.parts] ELSE @[i]],
                   !.textAccum = a.textAccum,
                   !.reasoningAccum = a.reasoningAccum]

\* updateMessage(assistantId, fn) with fn the application of result.updates:
\* fn runs only for a message of the list (cb.stale counts the results
\* that found none).  cb.toolCallOps and cb.workflowOps count the tool-call
\* and workflow-step operations applied; the hook takes the options
\* onToolCall and onWorkflowStep (cb.onToolCall, cb.onWorkflowStep count
\* their invocations) and never calls them.
ApplyBatchResult(c, aid, updates) ==
  IF ~HasMessage(c, aid) THEN [c EXCEPT !.cb.stale = @ + 1]
  ELSE LET a == ApplyUpdates([parts |-> MessageOf(c, aid).parts,
                              textAccum |-> c.textAccum,
                              reasoningAccum |-> c.reasoningAccum], updates, aid)
       IN  [c EXCEPT !.messages = [i \in DOMAIN @ |->
                                     IF @[i].id = aid
                                       THEN [@[i] EXCEPT !.parts = a.parts] ELSE @[i]],
                     !.textAccum = a.textAccum,
                     !.reasoningAccum = a.reasoningAccum,
                     !.cb.toolCallOps = @ + OpsOfType(updates, "tool-call"),
                     !.cb.workflowOps = @ + OpsOfType(updates, "workflow-step")]

\* the finally block of append
Finally(c, f, how) ==
  [c EXCEPT !.isLoading = FALSE, !.abortRef = 0, !.batchTimer = 0,
            !.frames[f].pc = "done", !.frames[f].end = how]

\* parts.map(p => p.state === "streaming" ? {...p, state: "done"} : p)
FinalizeParts(parts) ==
  [i \in DOMAIN parts |->
     IF parts[i].state = "streaming" THEN [parts[i] EXCEPT !.state = "done"] ELSE parts[i]]

\* the end of the try block of append, after the last batch: lines 1339-1357
Finalize(c, f) ==
  LET aid == c.frames[f].aid
      c1 == IF ~HasMessage(c, aid) THEN c
            ELSE LET finalized == [MessageOf(c, aid) EXCEPT
                                     !.status = "ready", !.parts = FinalizeParts(@)]
                 IN  [c EXCEPT !.messages = [i \in DOMAIN @ |->
                                               IF @[i].id = aid THEN finalized ELSE @[i]],
                               !.cb.onFinish = Append(@, finalized)]
  IN  Finally([c1 EXCEPT !.textAccum = DropKey(@, aid), !.chunkBatch = <<>>], f, "finished")

\* the continuation of whoever awaits processBatchedChunks: nobody (0), or
\* the append call f, which goes on to finalize
Resume(c, f) == IF f = 0 THEN c ELSE Finalize(c, f)

Take(s, n) == SubSeq(s, 1, Min(n, Len(s)))
Drop(s, n) == SubSeq(s, Min(n, Len(s)) + 1, Len(s))

RECURSIVE ProcessBatchedChunks(_, _, _)
RECURSIVE AfterBatch(_, _, _)

\* processBatchedChunks(assistantId) up to its await; caller is the append
\* call that awaits it, 0 when it was started by handleChunk or by the timer
ProcessBatchedChunks(c, aid, caller) ==
  IF c.chunkBatch = <<>> THEN Resume(c, caller)
  ELSE LET p == Execute(c.pool, aid)
           t == Len(p.promise)
           c1 == [c EXCEPT !.chunkBatch = Drop(@, BATCH_SIZE),
                           !.pool = p,
                           !.taskData = Append(@, [batch |-> Take(c.chunkBatch, BATCH_SIZE),
                                                   aid |-> aid, caller |-> caller])]
       IN  IF p.promise[t] = "pending" THEN c1
           ELSE AfterBatch(c1, t, <<>>)

\* A plausible slip: a rejected batch is surfaced as the session's error.
AfterBatchFatal(c, t, updates) ==
  LET d == c.taskData[t]
      resolved == c.pool.promise[t] = "resolved"
      c1 == IF resolved /\ c.isMounted /\ updates # <<>>
              THEN ApplyBatchResult(c, d.aid, updates)
            ELSE IF ~resolved THEN [c EXCEPT !.error = "batch", !.cb.onError = @ + 1]
            ELSE c
  IN  IF resolved /\ ~c.isMounted THEN Resume(c1, d.caller)
      ELSE IF c1.chunkBatch # <<>> THEN ProcessBatchedChunks(c1, d.aid, d.caller)
      ELSE Resume(c1, d.caller)

\* processBatchedChunks after its await, once the promise of task t has
\* settled; updates is the reply when it was resolved
AfterBatch(c, t, updates) ==
  LET d == c.taskData[t]
      resolved == c.pool.promise[t] = "resolved"
      c1 == IF resolved /\ c.isMounted /\ updates # <<>>
              THEN ApplyBatchResult(c, d.aid, updates) ELSE c
  IN  IF resolved /\ ~c.isMounted THEN Resume(c1, d.caller)
      ELSE IF c1.chunkBatch # <<>> THEN ProcessBatchedChunks(c1, d.aid, d.caller)
      ELSE Resume(c1, d.caller)

\* handleChunk(data, assistantId)
HandleChunk(c, data, aid) ==
  LET c1 == [c EXCEPT !.chunkBatch = Append(@, data), !.batchTimer = 0]
  IN  IF Len(c1.chunkBatch) >= BATCH_SIZE
        THEN ProcessBatchedChunks(c1, aid, 0)
        ELSE [c1 EXCEPT !.batchTimer = aid]

\* the for-loop of the read loop over the data lines of one read
RECURSIVE ReadLines(_, _, _)
ReadLines(c, lines, aid) ==
  IF lines = <<>> THEN c
  ELSE LET data == lines[1]
       IN  IF data.type = "[DONE]" THEN ReadLines(c, Tail(lines), aid)
           ELSE IF data.type = "usage"
             THEN ReadLines([c EXCEPT !.usage = @ + 1], Tail(lines), aid)
           ELSE ReadLines(HandleChunk(c, data, aid), Tail(lines), aid)

\* A plausible slip: the loading flag is raised before the limiter is asked
\* and stays raised when the limiter denies.
DenyLoading(c, r) ==
  [c EXCEPT !.requests = r.requests, !.error = "rate", !.isLoading = TRUE,
            !.cb.onError = @ + 1, !.cb.denied = @ + 1]

\* append, lines 1201-1206: the limiter denied
Deny(c, r) ==
  [c EXCEPT !.requests = r.requests, !.error = "rate",
            !.cb.onError = @ + 1, !.cb.denied = @ + 1]

\* append, lines 1208-1278: admitted, up to the first await (the fetch)
Admit(c, r, arg, retryCount) ==
  LET userMsg == IF "content" \in DOMAIN arg
                   THEN createMessage(c.nextId, "user", sanitizeInput(arg.content))
                   ELSE arg
      assistantMsg == [createMessage(c.nextId + 1, "assistant", <<>>)
                         EXCEPT !.status = "streaming"]
      ctl == Len(c.frames) + 1
  IN  [c EXCEPT !.requests = r.requests,
                !.isLoading = TRUE,
                !.error = "none",
                !.messages = @ \o <<userMsg, assistantMsg>>,
                !.nextId = @ + 2,
                !.abortRef = ctl,
                !.cb.fetches = @ + 1,
                !.frames = Append(@, [pc |-> "fetch", arg |-> arg,
                                      retry |-> retryCount,
                                      uid |-> userMsg.id,
                                      aid |-> assistantMsg.id,
                                      ctl |-> ctl, rest |-> <<>>,
                                      end |-> ""])]

\* the value of an array element that is out of range
Undefined == [undefined |-> TRUE]

\* append, lines 1208-1214, called with undefined: the flags are set and
\* `"content" in msg` throws a TypeError before the try block is entered
ThrowTypeError(c, r) ==
  [c EXCEPT !.requests = r.requests, !.isLoading = TRUE, !.error = "none",
            !.cb.typeErrors = @ + 1]

\* append(msg, retryCount) up to its first await
AppendSync(c, arg, retryCount) ==
  IF c.isLoading THEN [c EXCEPT !.cb.busy = @ + 1]
  ELSE LET r == CanMakeRequest(c.requests, c.clock)
       IN  IF ~r.ok THEN Deny(c, r)
           ELSE IF arg = Undefined THEN ThrowTypeError(c, r)
           ELSE Admit(c, r, arg, retryCount)

\* the catch block of append for an AbortError
CatchAbort(c, f) == Finally([c EXCEPT !.isLoading = FALSE], f, "aborted")

\* A plausible slip: the placeholder is dropped whatever the flag says.
CatchErrorDrop(c, f, err) ==
  IF c.frames[f].retry < c.cfg.maxRetries
    THEN [c EXCEPT !.frames[f].pc = "backoff"]
    ELSE Finally([c EXCEPT !.error = err,
                           !.cb.onError = @ + 1,
                           !.messages = RemoveMessage(@, c.frames[f].aid),
                           !.textAccum = DropKey(@, c.frames[f].aid),
                           !.chunkBatch = <<>>], f, "error")

\* the catch block of append for any other error: the retry is the call
\* append(msg, retryCount + 1) made once the backoff delay has passed
CatchError(c, f, err) ==
  IF c.frames[f].retry < c.cfg.maxRetries
    THEN [c EXCEPT !.frames[f].pc = "backoff"]
    ELSE Finally([c EXCEPT !.error = err,
                           !.cb.onError = @ + 1,
                           !.messages = IF c.cfg.keepLastMessageOnError THEN @
                                        ELSE RemoveMessage(@, c.frames[f].aid),
                           !.textAccum = DropKey(@, c.frames[f].aid),
                           !.chunkBatch = <<>>], f, "error")

\* lines 1372-1379 and the finally block: the failed placeholder is dropped
\* and append calls itself
RetryAfterBackoff(c, f) ==
  LET aid == c.frames[f].aid
      c1 == [c EXCEPT !.messages = RemoveMessage(@, aid),
                      !.textAccum = DropKey(@, aid)]
  IN  Finally(AppendSync(c1, c.frames[f].arg, c.frames[f].retry + 1), f, "retried")

\* setMessages(m)
setMessages(c, m) == [c EXCEPT !.messages = Take(m, MAX_MESSAGE_HISTORY)]

\* msgs.findLastIndex(m => m.role === role), counted from 1; 0 when none
FindLastIndex(msgs, role) ==
  LET hits == {i \in DOMAIN msgs : msgs[i].role = role}
  IN  IF hits = {} THEN 0 ELSE CHOOSE i \in hits : \A j \in hits : j <= i

\* msgs[i] of JavaScript for the index i counted from 1
At(msgs, i) == IF i \in DOMAIN msgs THEN msgs[i] ELSE Undefined

\* reload(): the argument of append is read from state.messages after
\* setMessages has replaced it
Reload(c) ==
  LET lastUserIdx == FindLastIndex(c.messages, "user")
  IN  IF lastUserIdx = 0 THEN c
      ELSE LET c1 == setMessages(c, Take(c.messages, lastUserIdx - 1))
           IN  AppendSync(c1, At(c1.messages, lastUserIdx), 0)

\* regenerate(): the argument of append is read from msgs, the array that
\* was the list when regenerate was called
Regenerate(c) ==
  LET msgs == c.messages
      lastAssistantIdx == FindLastIndex(msgs, "assistant")
      userMsgIdx == FindLastIndex(Take(msgs, lastAssistantIdx - 1), "user")
  IN  IF lastAssistantIdx = 0 \/ userMsgIdx = 0 THEN c
      ELSE LET c1 == setMessages(c, Take(msgs, lastAssistantIdx - 1))
               c2 == setMessages(c1, Take(msgs, userMsgIdx - 1))
           IN  AppendSync(c2, At(msgs, userMsgIdx), 0)

\* clear(): the request in flight is not aborted and the batch timer is
\* left armed
Clear(c) ==
  [c EXCEPT !.messages = <<>>, !.isLoading = FALSE, !.error = "none",
            !.usage = 0, !.requests = <<>>, !.chunkBatch = <<>>,
            !.textAccum = <<>>]

\* A plausible slip: stop() finalizes the parts that are streaming.
StopFinalizing(c) ==
  [c EXCEPT !.aborted = IF c.abortRef # 0 THEN @ \cup {c.abortRef} ELSE @,
            !.abortRef = 0, !.batchTimer = 0, !.chunkBatch = <<>>,
            !.isLoading = FALSE,
            !.messages = [i \in DOMAIN @ |-> [@[i] EXCEPT !.parts = FinalizeParts(@)]]]

\* stop()
Stop(c) ==
  [c EXCEPT !.aborted = IF c.abortRef # 0 THEN @ \cup {c.abortRef} ELSE @,
            !.abortRef = 0, !.batchTimer = 0, !.chunkBatch = <<>>,
            !.isLoading = FALSE]

\* the promise continuations of the tasks one pool event has settled, in
\* the order they settled
RECURSIVE RunContinuations(_, _, _)
RunContinuations(c, ts, updates) ==
  IF ts = <<>> THEN c
  ELSE RunContinuations(AfterBatch(c, ts[1], updates), Tail(ts), updates)

SettledSince(p0, p1) == SubSeq(p1.settleLog, Len(p0.settleLog) + 1, Len(p1.settleLog))

\* worker w answers the oldest batch posted to it: the worker's handler, the
\* pool's message handler and the continuations it wakes
WorkerReplies(c, w) ==
  LET d == c.taskData[Head(c.pool.inbox[w])]
      r == processBatch(c.streamingStates[w], d.batch, d.aid, c.cfg.features)
      p == OnWorkerReply(c.pool, w, FALSE)
  IN  RunContinuations([c EXCEPT !.pool = p, !.streamingStates[w] = r.ss],
                       SettledSince(c.pool, p), r.updates)

\* worker w answers the oldest batch posted to it with {error}: its handler
\* caught an exception before any chunk was accumulated
WorkerFails(c, w) ==
  LET p == OnWorkerReply(c.pool, w, TRUE)
  IN  RunContinuations([c EXCEPT !.pool = p], SettledSince(c.pool, p), <<>>)

\* the timeout of task t on worker w fires: the pool's handler and the
\* continuations it wakes
TaskTimesOut(c, w, t) ==
  LET p == HandleWorkerTimeout(c.pool, w, t)
  IN  RunContinuations([c EXCEPT !.pool = p], SettledSince(c.pool, p), <<>>)

(***************************************************************************)
(* The streams the service sends: each is a sequence of reads, each read a *)
(* sequence of data-line payloads.                                         *)
(***************************************************************************)
Hel == <<"H", "e", "l">>
Lo == <<"l", "o">>
Hello == Hel \o Lo
Burst == [i \in 1..BATCH_SIZE |-> TextPkt(<<"a">>)]
Scripts ==
  { <<<<TextPkt(Hel), TextPkt(Lo), FinishPkt, DonePkt>>>>,
    <<<<TextPkt(Hel)>>, <<TextPkt(Lo)>>, <<FinishPkt, DonePkt>>>>,
    <<<<TextPkt(Hel), ToolCallPkt("t1", "executing")>>,
      <<ToolCallPkt("t2", "executing")>>, <<DonePkt>>>>,
    <<Burst \o <<TextPkt(<<"b">>)>>>> }
RegenScript == <<<<TextPkt(Hel)>>, <<TextPkt(Lo)>>, <<FinishPkt, DonePkt>>>>
UsagePkt == Pkt("usage", <<>>, "", "")
ClearScript == <<<<TextPkt(Hel)>>, <<TextPkt(Lo), UsagePkt>>, <<FinishPkt, DonePkt>>>>
HelloScripts == {s \in Scripts : \E i \in DOMAIN s : FinishPkt \in Range(s[i])}
Contents == {<<"h", "i">>}
MaxAppends == 3
MaxRequests == 1
MaxRetriesOption == 1
MaxRegens == 2
MaxStopAppends == 2
MaxClears == 1
MaxRegenRequests == 3

NewChat(hc, reqs, cfg) ==
  [messages |-> <<>>, isLoading |-> FALSE, error |-> "none",
   requests |-> reqs, clock |-> 0, usage |-> 0,
   chunkBatch |-> <<>>, batchTimer |-> 0, abortRef |-> 0, aborted |-> {},
   textAccum |-> <<>>, reasoningAccum |-> <<>>, isMounted |-> TRUE,
   frames |-> <<>>, nextId |-> 1, appends |-> 0, admitted |-> 0,
   pool |-> NewPool(hc), taskData |-> <<>>,
   streamingStates |-> [w \in 1..Min(hc, POOL_SIZE_CAP) |-> <<>>],
   cb |-> [onError |-> 0, onFinish |-> <<>>, fetches |-> 0, busy |-> 0, denied |-> 0,
           stale |-> 0, onToolCall |-> 0, onWorkflowStep |-> 0,
           toolCallOps |-> 0, workflowOps |-> 0, typeErrors |-> 0],
   calls |-> [regenerate |-> 0, reload |-> 0, clear |-> 0],
   cfg |-> cfg]

ChatIdle == chat = NewChat(1, <<>>, [maxRetries |-> 0, keepLastMessageOnError |-> TRUE,
                                      features |-> NoFeatures, script |-> <<>>])

ChatInit ==
  \E hc \in 1..MaxHardwareConcurrency,
     reqs \in {<<>>, [i \in 1..(RATE_LIMIT_REQUESTS - 1) |-> 0]},
     mr \in 0..MaxRetriesOption, keep \in BOOLEAN, script \in Scripts :
    chat = NewChat(hc, reqs, [maxRetries |-> mr, keepLastMessageOnError |-> keep,
                              features |-> NoFeatures, script |-> script])

Reading(f) == chat.frames[f].pc = "reading"
Aborted(f) == chat.frames[f].ctl \in chat.aborted
Others == <<rlVars, fpVars, pool, auxVars>>

\* the caller calls append({role: "user", content}): at most MaxAppends times,
\* of which at most MaxRequests are admitted
WouldAdmit(c) ==
  ~c.isLoading /\ CountInWindow(c.requests, c.clock) < RATE_LIMIT_REQUESTS
ChatAppend ==
  \E content \in Contents :
    /\ chat.appends < MaxAppends
    /\ WouldAdmit(chat) => chat.admitted < MaxRequests
    /\ LET c == AppendSync([chat EXCEPT !.appends = @ + 1], [content |-> content], 0)
       IN  chat' = [c EXCEPT !.admitted = @ + (c.cb.fetches - chat.cb.fetches)]
    /\ UNCHANGED Others

\* the first call of a session that is regenerated or reloaded later
RegenAppend ==
  \E content \in Contents :
    /\ chat.appends = 0
    /\ LET c == AppendSync([chat EXCEPT !.appends = @ + 1], [content |-> content], 0)
       IN  chat' = [c EXCEPT !.admitted = @ + (c.cb.fetches - chat.cb.fetches)]
    /\ UNCHANGED Others

CallsMade(c) == c.calls.regenerate + c.calls.reload

\* the caller calls regenerate()
ChatRegenerate ==
  /\ CallsMade(chat) < MaxRegens
  /\ chat.admitted < MaxRegenRequests
  /\ LET c == Regenerate([chat EXCEPT !.calls.regenerate = @ + 1])
     IN  chat' = [c EXCEPT !.admitted = @ + (c.cb.fetches - chat.cb.fetches)]
  /\ UNCHANGED Others

\* the caller calls reload()
ChatReload ==
  /\ CallsMade(chat) < MaxRegens
  /\ chat.admitted < MaxRegenRequests
  /\ LET c == Reload([chat EXCEPT !.calls.reload = @ + 1])
     IN  chat' = [c EXCEPT !.admitted = @ + (c.cb.fetches - chat.cb.fetches)]
  /\ UNCHANGED Others

\* the caller calls append while an earlier call may still be cleaning up
StopAppend ==
  \E content \in Contents :
    /\ chat.appends < MaxStopAppends
    /\ LET c == AppendSync([chat EXCEPT !.appends = @ + 1], [content |-> content], 0)
       IN  chat' = [c EXCEPT !.admitted = @ + (c.cb.fetches - chat.cb.fetches)]
    /\ UNCHANGED Others

\* the caller calls clear() after it has called append
ChatClear ==
  /\ chat.appends > 0
  /\ chat.calls.clear < MaxClears
  /\ chat' = Clear([chat EXCEPT !.calls.clear = @ + 1])
  /\ UNCHANGED Others

\* the caller calls stop()
ChatStop ==
  /\ chat' = Stop(chat)
  /\ UNCHANGED Others

\* fetch rejects: the network failed
FetchFails ==
  \E f \in DOMAIN chat.frames :
    /\ chat.frames[f].pc = "fetch" /\ ~Aborted(f)
    /\ chat' = CatchError(chat, f, "network")
    /\ UNCHANGED Others

\* fetch or reader.read() rejects with the AbortError of stop()
RequestAborts ==
  \E f \in DOMAIN chat.frames :
    /\ chat.frames[f].pc \in {"fetch", "reading"} /\ Aborted(f)
    /\ chat' = CatchAbort(chat, f)
    /\ UNCHANGED Others

\* fetch resolves: a response that is not ok throws, an ok one is read
FetchResponds ==
  \E f \in DOMAIN chat.frames, ok \in BOOLEAN :
    /\ chat.frames[f].pc = "fetch" /\ ~Aborted(f)
    /\ chat' = IF ok THEN [chat EXCEPT !.frames[f].pc = "reading",
                                       !.frames[f].rest = chat.cfg.script]
                     ELSE CatchError(chat, f, "http")
    /\ UNCHANGED Others

\* reader.read() resolves with the bytes of the next read
ReadChunk ==
  \E f \in DOMAIN chat.frames :
    /\ Reading(f) /\ ~Aborted(f) /\ chat.frames[f].rest # <<>>
    /\ chat' = ReadLines([chat EXCEPT !.frames[f].rest = Tail(@)],
                         Head(chat.frames[f].rest), chat.frames[f].aid)
    /\ UNCHANGED Others

\* reader.read() resolves with done: the last batch is flushed and awaited
ReadDone ==
  \E f \in DOMAIN chat.frames :
    /\ Reading(f) /\ ~Aborted(f) /\ chat.frames[f].rest = <<>>
    /\ chat' = ProcessBatchedChunks([chat EXCEPT !.batchTimer = 0, !.frames[f].pc = "flush"],
                                    chat.frames[f].aid, f)
    /\ UNCHANGED Others

\* reader.read() rejects: the connection dropped mid-stream
ReadFails ==
  \E f \in DOMAIN chat.frames :
    /\ Reading(f) /\ ~Aborted(f)
    /\ chat' = CatchError(chat, f, "network")
    /\ UNCHANGED Others

\* the backoff delay of a retry has passed
BackoffElapsed ==
  \E f \in DOMAIN chat.frames :
    /\ chat.frames[f].pc = "backoff"
    /\ chat' = RetryAfterBackoff(chat, f)
    /\ UNCHANGED Others

\* the batch timer set by handleChunk fires
BatchTimerFires ==
  /\ chat.batchTimer # 0
  /\ chat' = ProcessBatchedChunks([chat EXCEPT !.batchTimer = 0], chat.batchTimer, 0)
  /\ UNCHANGED Others

\* a worker of the hook's pool answers
ChatWorkerReply ==
  \E w \in chat.pool.workers :
    /\ chat.pool.inbox[w] # <<>>
    /\ chat' = WorkerReplies(chat, w)
    /\ UNCHANGED Others

\* a worker of the hook's pool reports an error for a batch
ChatWorkerError ==
  \E w \in chat.pool.workers :
    /\ chat.pool.inbox[w] # <<>>
    /\ chat' = WorkerFails(chat, w)
    /\ UNCHANGED Others

\* a worker of the hook's pool has not answered within the timeout
ChatTaskTimeout ==
  \E tm \in chat.pool.timers :
    /\ chat' = TaskTimesOut(chat, tm[1], tm[2])
    /\ UNCHANGED Others

(***************************************************************************)
(* Specifications                                                          *)
(***************************************************************************)
FPIdle ==
  /\ fpInput = <<>>
  /\ fpRest = <<>>
  /\ fpBuffer = <<>>
  /\ fpOut = <<>>
  /\ fpPosts = 0

RLIdle ==
  /\ requests = <<>>
  /\ now = 0
  /\ ticks = 0
  /\ rlLast = NoCallYet

PoolIdle == pool = NewPool(1)
AuxIdle == BAIdle /\ AccIdle /\ DNIdle

RLNext == RLCall \/ RLTick
InitRL == RLInit /\ FPIdle /\ PoolIdle /\ ChatIdle /\ AuxIdle
SpecRL == InitRL /\ [][RLNext]_vars

FPNext == FPFeed
InitFP == FPInit /\ RLIdle /\ PoolIdle /\ ChatIdle /\ AuxIdle
SpecFP == InitFP /\ [][FPNext]_vars

PoolNext ==
  \/ PoolExecute \/ PoolWorkerReply \/ PoolTimeout \/ PoolAge
  \/ PoolTerminate \/ PoolGet
InitPool == PoolInit /\ RLIdle /\ FPIdle /\ ChatIdle /\ AuxIdle
SpecPool == InitPool /\ [][PoolNext]_vars

BurstNext == BurstExecute \/ BurstWorkerReply
InitBurst == BurstInit /\ RLIdle /\ FPIdle /\ ChatIdle /\ AuxIdle
SpecBurst == InitBurst /\ [][BurstNext]_vars

LateNext == LateExecute \/ PoolWorkerReply \/ PoolTimeout
InitLate == LateInit /\ RLIdle /\ FPIdle /\ ChatIdle /\ AuxIdle
SpecLate == InitLate /\ [][LateNext]_vars

BANext == BAProcess

AccNext == AccHandle
InitAcc == AccInit /\ BAIdle /\ DNIdle /\ RLIdle /\ FPIdle /\ PoolIdle /\ ChatIdle
SpecAcc == InitAcc /\ [][AccNext]_vars

\* Time passes and the cleanup interval keeps firing.
GCNext == GCHandle \/ GCTick \/ GCSweep
InitGC == GCInit /\ BAIdle /\ DNIdle /\ RLIdle /\ FPIdle /\ PoolIdle /\ ChatIdle
SpecGC == InitGC /\ [][GCNext]_vars /\ WF_vars(GCTick) /\ WF_vars(GCSweep)

\* Time passes and a due timer fires.
DNNext == DNNotify \/ DNTick \/ DNTimerFires \/ DNFlush \/ DNCleanup
InitDN == DNInit /\ BAIdle /\ AccIdle /\ RLIdle /\ FPIdle /\ PoolIdle /\ ChatIdle
SpecDN == InitDN /\ [][DNNext]_vars /\ WF_vars(DNTick) /\ WF_vars(DNTimerFires)
InitBA == BAInit /\ AccIdle /\ DNIdle /\ RLIdle /\ FPIdle /\ PoolIdle /\ ChatIdle
SpecBA == InitBA /\ [][BANext]_vars

Next ==
  \/ ChatAppend \/ ChatStop
  \/ FetchFails \/ FetchResponds \/ RequestAborts
  \/ ReadChunk \/ ReadDone \/ ReadFails
  \/ BackoffElapsed \/ BatchTimerFires \/ ChatWorkerReply
Init == ChatInit /\ RLIdle /\ FPIdle /\ PoolIdle /\ AuxIdle
Spec == Init /\ [][Next]_vars

\* The session when the workers may report an error or stall: one request
\* over a network that does not fail, no retry, nobody calls stop().
LossInit ==
  \E hc \in 1..MaxHardwareConcurrency, script \in Scripts :
    chat = NewChat(hc, <<>>, [maxRetries |-> 0, keepLastMessageOnError |-> TRUE,
                              features |-> NoFeatures, script |-> script])
InitLoss == LossInit /\ RLIdle /\ FPIdle /\ PoolIdle /\ AuxIdle
LossNext ==
  \/ ChatAppend \/ FetchResponds
  \/ ReadChunk \/ ReadDone \/ BatchTimerFires
  \/ ChatWorkerReply \/ ChatWorkerError \/ ChatTaskTimeout
SpecLoss == InitLoss /\ [][LossNext]_vars

\* The session when the caller regenerates or reloads: one script, one
\* worker, no retry, a network that answers, nobody calls stop().
RegenInit ==
  chat = NewChat(1, <<>>, [maxRetries |-> 0, keepLastMessageOnError |-> TRUE,
                           features |-> NoFeatures, script |-> RegenScript])
InitRegen == RegenInit /\ RLIdle /\ FPIdle /\ PoolIdle /\ AuxIdle
RegenNext ==
  \/ RegenAppend \/ ChatRegenerate \/ ChatReload
  \/ FetchResponds \/ ReadChunk \/ ReadDone
  \/ BatchTimerFires \/ ChatWorkerReply
SpecRegen == InitRegen /\ [][RegenNext]_vars

\* The session when the caller clears it: one append, one worker, no
\* retry, a network that may fail.
ClearInit ==
  chat = NewChat(1, <<>>, [maxRetries |-> 0, keepLastMessageOnError |-> TRUE,
                           features |-> NoFeatures, script |-> ClearScript])
InitClear == ClearInit /\ RLIdle /\ FPIdle /\ PoolIdle /\ AuxIdle
ClearNext ==
  \/ RegenAppend \/ ChatClear
  \/ FetchFails \/ FetchResponds \/ ReadChunk \/ ReadDone \/ ReadFails
  \/ BatchTimerFires \/ ChatWorkerReply
SpecClear == InitClear /\ [][ClearNext]_vars

\* The session when the caller stops a stream and appends again: one
\* script, one worker, no retry, a network that answers.
StopNext ==
  \/ StopAppend \/ ChatStop \/ RequestAborts
  \/ FetchResponds \/ ReadChunk \/ ReadDone
  \/ BatchTimerFires \/ ChatWorkerReply
InitStop == RegenInit /\ RLIdle /\ FPIdle /\ PoolIdle /\ AuxIdle
SpecStop == InitStop /\ [][StopNext]_vars

(***************************************************************************)
(* Facts about a run of the session, used by the claims below              *)
(***************************************************************************)
Frames == DOMAIN chat.frames
PendingTasks(aid) ==
  {t \in DOMAIN chat.pool.promise :
     chat.pool.promise[t] = "pending" /\ chat.taskData[t].aid = aid}
Parts(aid) == MessageOf(chat, aid).parts
NonTerminal(p) ==
  p.state \in {"streaming", "executing"} \/ p.status \in {"running", "pending"}
MessagesOfRole(role) == {i \in DOMAIN chat.messages : chat.messages[i].role = role}
AtRest == \A f \in Frames : chat.frames[f].pc = "done"

(***************************************************************************)
(* C1: delta correctness, end to end: when the stream delivers the text    *)
(* packets "Hel", "lo", then finish and [DONE], and ends gracefully, the   *)
(* session holds exactly one assistant message, with the single part       *)
(* Text "Hello" in state done.                                             *)
(***************************************************************************)
C1_DeltaCorrectness ==
  \A f \in Frames :
    ( /\ chat.cfg.script \in HelloScripts
      /\ chat.frames[f].end = "finished"
      /\ PendingTasks(chat.frames[f].aid) = {} )
    => /\ Cardinality(MessagesOfRole("assistant")) = 1
       /\ HasMessage(chat, chat.frames[f].aid)
       /\ Parts(chat.frames[f].aid) = <<Part("text", Hello, "done")>>

(***************************************************************************)
(* C3: per-message serialization: never two pool tasks of the same         *)
(* assistant message in flight at once.                                    *)
(***************************************************************************)
C3_Serialized ==
  \A f \in Frames : Cardinality(PendingTasks(chat.frames[f].aid)) <= 1

(***************************************************************************)
(* C4: retry idempotence: with maxRetries >= 1, once attempt 1 has failed  *)
(* with a network/HTTP error, no other attempt has failed, nobody called   *)
(* stop() and the session is at rest, the session holds exactly one user   *)
(* message and one assistant message (that of the successful attempt).     *)
(***************************************************************************)
C4_RetryIdempotent ==
  ( /\ chat.frames # <<>>
    /\ chat.frames[1].end = "retried"
    /\ \A f \in Frames \ {1} : chat.frames[f].end = "finished"
    /\ chat.aborted = {} /\ chat.appends = 1
    /\ AtRest /\ ~chat.isLoading )
  => /\ Cardinality(MessagesOfRole("user")) = 1
     /\ Cardinality(MessagesOfRole("assistant")) = 1

(***************************************************************************)
(* C5: cancellation: stop() called while a stream is being read leaves     *)
(* isLoading false, does not populate the error field (it stays as it was, *)
(* unset for a stream that has not failed) and leaves every message and    *)
(* part as it was; the AbortError it causes is handled without setting the *)
(* error, without touching a part and with isLoading false.                *)
(***************************************************************************)
C5_Cancellation ==
  [][ /\ (ChatStop /\ \E f \in Frames : Reading(f))
         => /\ chat'.isLoading = FALSE
            /\ chat'.error = chat.error
            /\ chat'.messages = chat.messages
            /\ chat'.cb.onError = chat.cb.onError
      /\ RequestAborts
         => /\ chat'.isLoading = FALSE
            /\ chat'.error = chat.error
            /\ chat'.messages = chat.messages
            /\ chat'.cb.onError = chat.cb.onError ]_vars
\* stop() came while the text part was streaming: the call has ended, the
\* part is still streaming
C5_Witness ==
  \E f \in Frames :
    /\ chat.frames[f].end = "aborted"
    /\ ~chat.isLoading /\ chat.error = "none"
    /\ HasMessage(chat, chat.frames[f].aid)
    /\ \E i \in DOMAIN Parts(chat.frames[f].aid) :
         Parts(chat.frames[f].aid)[i].state = "streaming"

(***************************************************************************)
(* C9: admission of append: called while the session is loading, append    *)
(* changes nothing; called while it is idle and the limiter denies, the    *)
(* error becomes the rate-limit error, the error callback runs once, no    *)
(* message is appended, no request is issued, isLoading stays false and    *)
(* no call is left to retry.                                               *)
(***************************************************************************)
Untouched(c, d) ==
  /\ d.messages = c.messages /\ d.frames = c.frames /\ d.cb.fetches = c.cb.fetches
  /\ d.isLoading = c.isLoading /\ d.abortRef = c.abortRef /\ d.pool = c.pool
  /\ d.chunkBatch = c.chunkBatch /\ d.batchTimer = c.batchTimer
C9_Admission ==
  [][ ChatAppend =>
        /\ chat.isLoading
             => /\ Untouched(chat, chat')
                /\ chat'.requests = chat.requests
                /\ chat'.error = chat.error
                /\ chat'.cb.onError = chat.cb.onError
        /\ (~chat.isLoading
            /\ CountInWindow(chat.requests, chat.clock) >= RATE_LIMIT_REQUESTS)
             => /\ Untouched(chat, chat')
                /\ ~chat'.isLoading
                /\ chat'.error = "rate"
                /\ chat'.cb.onError = chat.cb.onError + 1 ]_vars
\* one call was refused while loading, a later one was denied by the limiter
C9_Witness ==
  /\ chat.cb.busy >= 1 /\ chat.cb.denied = 1
  /\ chat.error = "rate" /\ ~chat.isLoading
  /\ chat.cb.fetches = 1 /\ Len(chat.messages) = 2

(***************************************************************************)
(* C10: graceful stream end: once the reader has signalled done and the    *)
(* last batch has been applied, no part of the assistant message is        *)
(* streaming, executing, running or pending, the message is ready,         *)
(* isLoading is false and the finish callback has run once, with the       *)
(* finalized message.                                                      *)
(***************************************************************************)
C10_GracefulEnd ==
  \A f \in Frames :
    ( /\ chat.frames[f].end = "finished"
      /\ PendingTasks(chat.frames[f].aid) = {}
      /\ HasMessage(chat, chat.frames[f].aid) )
    => /\ \A i \in DOMAIN Parts(chat.frames[f].aid) :
            ~NonTerminal(Parts(chat.frames[f].aid)[i])
       /\ MessageOf(chat, chat.frames[f].aid).status = "ready"
       /\ ~chat.isLoading
       /\ chat.cb.onFinish = <<MessageOf(chat, chat.frames[f].aid)>>

(***************************************************************************)
(* C11: retry exhaustion: when every attempt of the one append made has    *)
(* failed with a network/HTTP error, nobody called stop() and the session  *)
(* is at rest, the request was attempted maxRetries + 1 times, the error   *)
(* is recorded, the error callback ran exactly once, isLoading is false.   *)
(***************************************************************************)
C11_RetryExhaustion ==
  ( /\ chat.frames # <<>>
    /\ \A f \in Frames : chat.frames[f].end \in {"retried", "error"}
    /\ chat.aborted = {} /\ chat.appends = 1 )
  => /\ chat.cb.fetches = chat.cfg.maxRetries + 1
     /\ chat.error # "none"
     /\ chat.cb.onError = 1
     /\ ~chat.isLoading

(***************************************************************************)
(* C12: keepLastMessageOnError: the step that ends an append in a terminal *)
(* error leaves the user message of that append in the list, and leaves    *)
(* its placeholder assistant message in the list exactly when              *)
(* keepLastMessageOnError is true.                                         *)
(***************************************************************************)
C12_KeepLastMessage ==
  [][ \A f \in Frames :
        (chat.frames[f].end = "" /\ chat'.frames[f].end = "error")
        => /\ HasMessage(chat', chat.frames[f].uid)
           /\ HasMessage(chat', chat.frames[f].aid) <=> chat.cfg.keepLastMessageOnError
           /\ \A i \in DOMAIN chat.messages :
                chat.messages[i].id # chat.frames[f].aid
                  => HasMessage(chat', chat.messages[i].id) ]_vars
\* a stream broke after text had arrived, the flag is false: the user
\* message is there, the placeholder is gone, the error is recorded
C12_Witness ==
  \E f \in Frames :
    /\ chat.frames[f].end = "error"
    /\ ~chat.cfg.keepLastMessageOnError
    /\ chat.error = "network"
    /\ HasMessage(chat, chat.frames[f].uid)
    /\ ~HasMessage(chat, chat.frames[f].aid)
    /\ \E t \in DOMAIN chat.taskData : chat.taskData[t].aid = chat.frames[f].aid

(***************************************************************************)
(* C13: terminal part states are absorbing: a part of a message that is    *)
(* done, complete, completed or error is not streaming, executing, running *)
(* or pending after any later step.                                        *)
(***************************************************************************)
Terminal(p) ==
  p.state \in {"done", "complete", "error"} \/ p.status \in {"completed", "error"}
C13_TerminalAbsorbing ==
  [][ \A i \in DOMAIN chat.messages :
        \A j \in DOMAIN chat.messages[i].parts :
          ( /\ Terminal(chat.messages[i].parts[j])
            /\ HasMessage(chat', chat.messages[i].id)
            /\ j \in DOMAIN MessageOf(chat', chat.messages[i].id).parts
            /\ MessageOf(chat', chat.messages[i].id).parts[j].type
                 = chat.messages[i].parts[j].type )
          => ~NonTerminal(MessageOf(chat', chat.messages[i].id).parts[j]) ]_vars

(***************************************************************************)
(* C14: part identity: an operation leaves the parts of other identity     *)
(* alone: a tool-call part with toolCallId b is still a part of its        *)
(* message after any step that keeps the message, so two tool calls with   *)
(* distinct ids give two parts.                                            *)
(***************************************************************************)
C14_PartIdentity ==
  [][ \A i \in DOMAIN chat.messages :
        \A j \in DOMAIN chat.messages[i].parts :
          ( /\ chat.messages[i].parts[j].type = "tool-call"
            /\ HasMessage(chat', chat.messages[i].id) )
          => \E k \in DOMAIN MessageOf(chat', chat.messages[i].id).parts :
               /\ MessageOf(chat', chat.messages[i].id).parts[k].type = "tool-call"
               /\ MessageOf(chat', chat.messages[i].id).parts[k].id
                    = chat.messages[i].parts[j].id ]_vars

(***************************************************************************)
(* C15: uniqueness of active parts: no message holds two active parts      *)
(* (streaming, running or executing) of the same identity, the identity    *)
(* being the type together with the toolCallId/stepId.                     *)
(***************************************************************************)
Active(p) == p.state \in {"streaming", "executing"} \/ p.status = "running"
Identity(p) == <<TypeOf(p), p.id>>
C15_ActiveUnique ==
  \A i \in DOMAIN chat.messages :
    \A j, k \in DOMAIN chat.messages[i].parts :
      ( /\ j # k
        /\ Active(chat.messages[i].parts[j])
        /\ Active(chat.messages[i].parts[k]) )
      => Identity(chat.messages[i].parts[j]) # Identity(chat.messages[i].parts[k])
\* a message with a streaming text part next to an executing tool call
C15_Witness ==
  \E i \in DOMAIN chat.messages :
    \E j, k \in DOMAIN chat.messages[i].parts :
      /\ chat.messages[i].parts[j] = Part("text", Hel, "streaming")
      /\ chat.messages[i].parts[k].type = "tool-call"
      /\ chat.messages[i].parts[k].state = "executing"

(***************************************************************************)
(* C16: stale results are discarded: a worker reply whose batches all      *)
(* belong to messages that are no longer in the list changes no message    *)
(* and no accumulator, and no step brings back a message that an append    *)
(* created and that has been removed.                                      *)
(***************************************************************************)
StaleOn(w) ==
  /\ chat.pool.inbox[w] # <<>>
  /\ \A t \in Range(chat.pool.listeners[w]) : ~HasMessage(chat, chat.taskData[t].aid)
C16_StaleDiscarded ==
  [][ /\ \A w \in chat.pool.workers :
           (StaleOn(w) /\ chat' = WorkerReplies(chat, w))
           => /\ chat'.messages = chat.messages
              /\ chat'.textAccum = chat.textAccum
              /\ chat'.reasoningAccum = chat.reasoningAccum
      /\ \A f \in Frames :
           (chat.frames[f].pc # "fetch" /\ ~HasMessage(chat, chat.frames[f].aid))
           => ~HasMessage(chat', chat.frames[f].aid) ]_vars
\* a batch result with updates arrived after its message had been removed
C16_Witness ==
  /\ chat.cb.stale >= 1
  /\ \E t \in DOMAIN chat.taskData :
       /\ chat.pool.promise[t] = "resolved"
       /\ ~HasMessage(chat, chat.taskData[t].aid)
  /\ \A i \in DOMAIN chat.messages : chat.messages[i].role = "user"

(***************************************************************************)
(* C19: a lost batch does not stop the stream: the step in which the pool  *)
(* task of a batch is rejected (worker error or timeout) applies no update,*)
(* leaves the error unset and the error callback uncalled, leaves every    *)
(* call that is reading where it is, submits the chunks that wait, and     *)
(* changes isLoading only when the call that awaited the last batch goes   *)
(* on to finish.                                                           *)
(***************************************************************************)
Content(c) ==
  [i \in DOMAIN c.messages |->
     [j \in DOMAIN c.messages[i].parts |->
        <<c.messages[i].id, c.messages[i].parts[j].type, c.messages[i].parts[j].text>>]]
Dispatched(p) == UNION {Range(p.inbox[w]) : w \in DOMAIN p.inbox}
C17_Terminate ==
  [][ /\ (~pool.isTerminated /\ pool'.isTerminated) =>
           /\ \A t \in Range(pool.taskQueue) :
                pool.promise[t] = "pending" /\ pool'.promise[t] = "rejected"
           /\ pool'.taskQueue = <<>>
           /\ pool'.timers = {}
           /\ pool'.workers = {} /\ pool'.available = <<>>
           /\ Dispatched(pool') = {}
      /\ (pool.isTerminated /\ Len(pool'.promise) > Len(pool.promise)) =>
           /\ pool'.promise[Len(pool'.promise)] = "rejected"
           /\ pool'.isTerminated
           /\ pool'.taskQueue = <<>> /\ pool'.timers = {}
           /\ Dispatched(pool') = {}
      /\ (pool.isTerminated /\ pool'.constructed > pool.constructed) =>
           /\ ~pool'.isTerminated
           /\ pool'.workers # {}
           /\ Range(pool'.available) = pool'.workers
           /\ pool'.promise = <<>> /\ pool'.taskQueue = <<>>
    ]_vars
\* a pool of one worker was terminated with the first task in flight and the
\* second queued; a third was submitted afterwards; the queued one and the
\* late one are rejected, nothing is armed or dispatched
C17_Witness ==
  /\ pool.isTerminated /\ pool.hardwareConcurrency = 1
  /\ pool.terminatedAt = 2 /\ Len(pool.promise) = 3
  /\ pool.promise = <<"pending", "rejected", "rejected">>
  /\ pool.settleLog = <<2, 3>>
  /\ pool.timers = {} /\ pool.workers = {}

(***************************************************************************)
(* C18, as stated: when the timeout of a dispatched task fires, the task   *)
(* is rejected, its worker is back in service without being terminated,    *)
(* and the task at the head of the queue (if any) is dispatched.           *)
(***************************************************************************)
InService(p, w) == w \in p.workers /\ (w \in Range(p.available) \/ p.busy[w] # 0)
Running(p, t) ==
  \E w \in p.workers : p.busy[w] = t /\ <<w, t>> \in p.timers /\ t \in Range(p.inbox[w])
C18_TimeoutDispatchesNext ==
  [][ \A tm \in pool.timers :
        pool' = HandleWorkerTimeout(pool, tm[1], tm[2]) =>
          /\ pool'.promise[tm[2]] = "rejected"
          /\ InService(pool', tm[1])
          /\ pool.taskQueue # <<>> => Running(pool', Head(pool.taskQueue))
    ]_vars

(***************************************************************************)
(* C18, amended: when the timeout of a dispatched task fires, the task is  *)
(* rejected, its worker is back in service without being terminated, and   *)
(* the queue is drained from its head: the tasks that have waited more     *)
(* than 30 s are rejected, and the first one that has not is dispatched.   *)
(***************************************************************************)
RECURSIVE ExpiredPrefix(_, _)
ExpiredPrefix(q, aged) ==
  IF q = <<>> \/ q[1] \notin aged THEN <<>>
  ELSE <<q[1]>> \o ExpiredPrefix(Tail(q), aged)
C18_TimeoutDrainsQueue ==
  [][ \A tm \in pool.timers :
        pool' = HandleWorkerTimeout(pool, tm[1], tm[2]) =>
          LET expired == ExpiredPrefix(pool.taskQueue, pool.aged)
              rest == SubSeq(pool.taskQueue, Len(expired) + 1, Len(pool.taskQueue))
          IN  /\ pool.promise[tm[2]] = "pending"
              /\ pool'.promise[tm[2]] = "rejected"
              /\ InService(pool', tm[1])
              /\ \A t \in Range(expired) : pool'.promise[t] = "rejected"
              /\ rest # <<>> => Running(pool', Head(rest)) /\ pool'.taskQueue = Tail(rest)
              /\ rest = <<>> => pool'.taskQueue = <<>> /\ tm[1] \in Range(pool'.available)
    ]_vars
\* a pool of one worker: the first task timed out while the second, queued,
\* had waited more than 30 s and the third had not; the first two are
\* rejected and the third runs on the reclaimed worker
C18_Witness ==
  /\ ~pool.isTerminated /\ pool.hardwareConcurrency = 1
  /\ pool.promise = <<"rejected", "rejected", "pending">>
  /\ pool.settleLog = <<1, 2>>
  /\ pool.inbox[1] = <<1, 3>>
  /\ pool.busy[1] = 3 /\ pool.timers = {<<1, 3>>}
  /\ pool.taskQueue = <<>>

(***************************************************************************)
(* C23: debounce coalescing: a notify() call delivers nothing itself and   *)
(* leaves the notification pending on an armed timer; a call made while    *)
(* the timer is armed does not move the window the first call opened; the  *)
(* timer callback runs when the window has elapsed and delivers once to    *)
(* every subscriber; a pending notification always has its timer armed,    *)
(* and it does not stay pending for ever.                                  *)
(***************************************************************************)
HeardOnce(d0, d1) == \A l \in Subscribers : d1.heard[l] = d0.heard[l] + 1
C23_Coalescing ==
  /\ [][ /\ dn'.calls > dn.calls =>
              /\ dn'.heard = dn.heard
              /\ dn'.pendingUpdate /\ dn'.timeoutId
              /\ dn'.window = (IF dn.timeoutId THEN dn.window ELSE UI_UPDATE_DEBOUNCE_MS)
         /\ (dn'.last = "timer" /\ dn.last # "timer") =>
              /\ dn.window = 0 /\ dn.pendingUpdate
              /\ HeardOnce(dn, dn')
              /\ ~dn'.pendingUpdate /\ ~dn'.timeoutId
       ]_vars
  /\ [](dn.pendingUpdate => dn.timeoutId)
  /\ (dn.pendingUpdate ~> ~dn.pendingUpdate)
\* three notify() calls fell into one window and the timer delivered once
C23_Witness ==
  /\ dn.calls = MaxNotifies /\ dn.calls > 1
  /\ dn.last = "timer"
  /\ \A l \in Subscribers : dn.heard[l] = 1

(***************************************************************************)
(* C24: flush() delivers a pending notification once and disarms the       *)
(* timer, and delivers nothing when nothing is pending; cleanup() disarms  *)
(* the timer and drops the pending flag without delivering; after either,  *)
(* nothing is delivered until notify() is called again.                    *)
(***************************************************************************)
C24_FlushCleanup ==
  [][ /\ (dn'.last = "flush" /\ dn.last # "flush") =>
           /\ IF dn.pendingUpdate THEN HeardOnce(dn, dn') ELSE dn'.heard = dn.heard
           /\ ~dn'.pendingUpdate /\ ~dn'.timeoutId
      /\ (dn'.last = "cleanup" /\ dn.last # "cleanup") =>
           /\ dn'.heard = dn.heard
           /\ ~dn'.pendingUpdate /\ ~dn'.timeoutId
      /\ dn.last \in {"flush", "cleanup"} => dn'.heard = dn.heard
    ]_vars
\* a pending notification was flushed, the window it was waiting for has
\* elapsed since, and the subscribers have heard it once
C24_Witness ==
  /\ dn.last = "flush" /\ dn.calls >= 1
  /\ dn.window = 0 /\ ~dn.timeoutId
  /\ \A l \in Subscribers : dn.heard[l] = 1

(***************************************************************************)
(* C25: text accumulation: the streaming text operations a worker posts    *)
(* for a batch are, in order, the control-character-free texts of the      *)
(* batch's text packets (each alone, never the accumulated value); every   *)
(* accumulator of text then holds the concatenation, in order, of the      *)
(* deltas received for its message id since its entry was created; and a   *)
(* batch for one id leaves the entries of the other ids as they were.      *)
(***************************************************************************)
Stripped(text) == SelectSeq(text, LAMBDA ch : ch \notin {"<NUL>", "<BEL>", "<DEL>"})
RECURSIVE Deltas(_)
Deltas(batch) ==
  IF batch = <<>> THEN <<>>
  ELSE (IF batch[1].type = "text" /\ batch[1].text # <<>>
          THEN <<Stripped(batch[1].text)>> ELSE <<>>) \o Deltas(Tail(batch))
RECURSIVE Flatten(_)
Flatten(ss) == IF ss = <<>> THEN <<>> ELSE ss[1] \o Flatten(Tail(ss))
\* the packets of message id x in the log, from the last finish on
RECURSIVE PacketsOf(_, _)
PacketsOf(log, x) ==
  IF log = <<>> THEN <<>>
  ELSE (IF log[1].assistantId = x THEN log[1].batch ELSE <<>>) \o PacketsOf(Tail(log), x)
RECURSIVE SinceFinish(_)
SinceFinish(pkts) ==
  IF \E i \in DOMAIN pkts : pkts[i].type = "finish"
    THEN SinceFinish(Tail(pkts))
    ELSE pkts
C26_FeatureGating ==
  accum.last.kind = "message" =>
    \A i \in DOMAIN accum.last.updates :
      /\ accum.last.updates[i].type = "reasoning" => accum.features.reasoning
      /\ accum.last.updates[i].type = "thinking" => accum.features.thinking

(***************************************************************************)
(* C27: finish flush: the operations a finish packet makes the worker post *)
(* are one operation with state done and the full accumulated value for    *)
(* each of text, reasoning and thinking whose accumulator is not empty,    *)
(* followed by one finish operation; afterwards the message id has no      *)
(* accumulator entry (so a finish right after it posts the finish          *)
(* operation alone).                                                       *)
(***************************************************************************)
Before(i) == processBatch(accum.last.ss, SubSeq(accum.last.batch, 1, i - 1),
                          accum.last.assistantId, accum.features)
After(i) == processBatch(accum.last.ss, SubSeq(accum.last.batch, 1, i),
                         accum.last.assistantId, accum.features)
OpsOf(i) == SubSeq(After(i).updates, Len(Before(i).updates) + 1, Len(After(i).updates))
Held(i, field) ==
  IF accum.last.assistantId \in DOMAIN Before(i).ss
    THEN Before(i).ss[accum.last.assistantId][field] ELSE <<>>
DoneOps(ops, type) == SelectSeq(ops, LAMBDA u : u.type = type /\ u.data.state = "done")
FlushedAs(i, field, type) ==
  IF Held(i, field) = <<>> THEN DoneOps(OpsOf(i), type) = <<>>
  ELSE /\ Len(DoneOps(OpsOf(i), type)) = 1
       /\ DoneOps(OpsOf(i), type)[1].data.text = Held(i, field)
C27_FinishFlush ==
  accum.last.kind = "message" =>
    \A i \in DOMAIN accum.last.batch :
      accum.last.batch[i].type = "finish" =>
        /\ FlushedAs(i, "accumulatedText", "text")
        /\ FlushedAs(i, "accumulatedReasoning", "reasoning")
        /\ FlushedAs(i, "accumulatedThinking", "thinking")
        /\ OpsOf(i)[Len(OpsOf(i))].type = "finish"
        /\ Len(OpsOf(i)) = 1 + Len(DoneOps(OpsOf(i), "text"))
                             + Len(DoneOps(OpsOf(i), "reasoning"))
                             + Len(DoneOps(OpsOf(i), "thinking"))
        /\ accum.last.assistantId \notin DOMAIN After(i).ss
        /\ (i < Len(accum.last.batch) /\ accum.last.batch[i + 1].type = "finish")
             => Len(OpsOf(i + 1)) = 1
\* text and reasoning had been accumulated for the message, and the batch
\* is two finish packets: three operations for the first, one for the second
C27_Witness ==
  /\ accum.last.kind = "message"
  /\ accum.last.batch = <<FinishPkt, FinishPkt>>
  /\ accum.last.assistantId \in DOMAIN accum.last.ss
  /\ accum.last.ss[accum.last.assistantId].accumulatedText # <<>>
  /\ accum.last.ss[accum.last.assistantId].accumulatedReasoning # <<>>
  /\ Len(accum.last.updates) = 4
  /\ accum.last.assistantId \notin DOMAIN accum.ss

(***************************************************************************)
(* C28: accumulator garbage collection: a sweep deletes exactly the        *)
(* entries that have been idle for more than the maximum idle age and      *)
(* leaves the others as they were; and an entry nobody touches any more    *)
(* does not stay for ever.                                                 *)
(***************************************************************************)
C28_GarbageCollection ==
  /\ [](accum.last.kind = "sweep" =>
          /\ DOMAIN accum.ss =
               {x \in DOMAIN accum.last.ss : accum.last.idle[x] <= MAX_BUFFER_AGE_MS}
          /\ \A x \in DOMAIN accum.ss : accum.ss[x] = accum.last.ss[x])
  /\ \A x \in AssistantIds : <>[](x \notin DOMAIN accum.ss)
\* a sweep found one entry idle for exactly the maximum idle age and one
\* idle for longer: it kept the first and deleted the second
C28_Witness ==
  /\ accum.last.kind = "sweep"
  /\ DOMAIN accum.last.ss = AssistantIds
  /\ \E x, y \in AssistantIds :
       /\ accum.last.idle[x] = MAX_BUFFER_AGE_MS /\ x \in DOMAIN accum.ss
       /\ accum.last.idle[y] > MAX_BUFFER_AGE_MS /\ y \notin DOMAIN accum.ss

(***************************************************************************)
(* C29: event framing: the packets one invocation of the FrameParser       *)
(* posts are, in order, one packet for each run of lines between blank     *)
(* lines that holds a data line other than the sentinel, the payloads of   *)
(* the run's data lines joined with newlines, whether or not a blank line  *)
(* closes the last run; the sentinel, comment lines and field lines are    *)
(* never a packet or a line of one.                                        *)
(***************************************************************************)
\* the text the handler passes to parseSSEData for a chunk, as lines
Invoked(buf, data) ==
  LET lines == SplitNL(buf \o data)
      complete == JoinNL(IF EndsWith(data, <<NL>>) THEN lines
                         ELSE SubSeq(lines, 1, Len(lines) - 1))
  IN  IF Trim(complete) = <<>> THEN <<>> ELSE SplitNL(complete \o <<NL>>)
IsPayloadLine(raw) ==
  StartsWith(Trim(raw), DataPrefix) /\ Slice(Trim(raw), 6) # DoneSentinel
\* the runs of lines between blank lines, each as the payloads it holds
RECURSIVE Runs(_, _)
Runs(lines, cur) ==
  IF lines = <<>> THEN (IF cur = <<>> THEN <<>> ELSE <<cur>>)
  ELSE IF Trim(lines[1]) = <<>>
    THEN (IF cur = <<>> THEN <<>> ELSE <<cur>>) \o Runs(Tail(lines), <<>>)
  ELSE IF IsPayloadLine(lines[1])
    THEN Runs(Tail(lines), Append(cur, Slice(Trim(lines[1]), 6)))
  ELSE Runs(Tail(lines), cur)
Framed(lines) == [i \in DOMAIN Runs(lines, <<>>) |-> JoinNL(Runs(lines, <<>>)[i])]
C29_EventFraming ==
  [][ LET k == Len(fpRest) - Len(fpRest')
      IN  /\ fpOut' = fpOut \o Framed(Invoked(fpBuffer, SubSeq(fpRest, 1, k)))
          /\ \A i \in DOMAIN fpOut' :
               \A j \in DOMAIN SplitNL(fpOut'[i]) :
                 SplitNL(fpOut'[i])[j] \notin
                   {DoneSentinel, LineDone, LineComment, LineField}
    ]_vars
\* the chunk ended after the second data line of an event, before its blank
\* line: the two payloads were posted as one packet
C29_Witness ==
  /\ fpInput = FramesText(<<<<LineDataA, LineDataB>>, <<LineDone>>>>)
  /\ fpRest = <<NL>> \o EventText(<<LineDone>>)
  /\ fpOut = << <<"a", NL, "b">> >>

(***************************************************************************)
(* C30: backpressure: execute() on a pool with an available worker         *)
(* dispatches the task at once; with none available it appends the task    *)
(* to the queue, unless the queue already holds more than 100 tasks, and   *)
(* then it rejects the task and leaves the queue alone; so the queue never *)
(* holds more than 101 tasks.                                              *)
(***************************************************************************)
C30_Backpressure ==
  [][ /\ Len(pool'.promise) > Len(pool.promise) =>
           LET t == Len(pool'.promise)
           IN  IF pool.available # <<>>
                 THEN Running(pool', t) /\ pool'.taskQueue = pool.taskQueue
               ELSE IF Len(pool.taskQueue) > 100
                 THEN pool'.promise[t] = "rejected" /\ pool'.taskQueue = pool.taskQueue
               ELSE pool'.promise[t] = "pending" /\ pool'.taskQueue = Append(pool.taskQueue, t)
      /\ Len(pool'.taskQueue) <= 101
    ]_vars
\* one task on the worker, 101 in the queue, and the next one rejected
C30_Witness ==
  /\ Len(pool.taskQueue) = 101
  /\ Len(pool.promise) = 103
  /\ pool.promise[103] = "rejected" /\ pool.promise[102] = "pending"
  /\ pool.taskQueue[101] = 102

(***************************************************************************)
(* C21: side-effect callbacks: the tool-call callback has been invoked     *)
(* once for every tool-call operation applied to an assistant message, and *)
(* the workflow-step callback once for every workflow-step operation.      *)
(***************************************************************************)
C21_CallbackOnce ==
  /\ chat.cb.onToolCall = chat.cb.toolCallOps
  /\ chat.cb.onWorkflowStep = chat.cb.workflowOps

(***************************************************************************)
(* C22: regenerate() and reload(): a call that append admits leaves the    *)
(* messages before the user message it starts from, that user message with *)
(* its original content and one new assistant message, with one request    *)
(* issued; regenerate() starts from the latest user message before the     *)
(* most recent assistant message, reload() from the most recent user       *)
(* message. When the stream of that request succeeds and no other call     *)
(* intervened, the list ends with that user message and the new assistant  *)
(* message, which is ready.                                                *)
(***************************************************************************)
RegenerateUserIdx(msgs) ==
  FindLastIndex(Take(msgs, FindLastIndex(msgs, "assistant") - 1), "user")

Restarted(u) ==
  /\ Len(chat'.messages) = u + 1
  /\ Take(chat'.messages, u - 1) = Take(chat.messages, u - 1)
  /\ chat'.messages[u].role = "user"
  /\ chat'.messages[u].parts = chat.messages[u].parts
  /\ chat'.messages[u + 1].role = "assistant"
  /\ chat'.messages[u + 1].id \notin {chat.messages[i].id : i \in DOMAIN chat.messages}
  /\ chat'.cb.fetches = chat.cb.fetches + 1

RegenerateRestarts ==
  /\ chat'.calls.regenerate # chat.calls.regenerate
  /\ WouldAdmit(chat)
  /\ RegenerateUserIdx(chat.messages) > 0
  => Restarted(RegenerateUserIdx(chat.messages))

ReloadRestarts ==
  /\ chat'.calls.reload # chat.calls.reload
  /\ WouldAdmit(chat)
  /\ FindLastIndex(chat.messages, "user") > 0
  => Restarted(FindLastIndex(chat.messages, "user"))

RestartFinishes ==
  \A f \in DOMAIN chat.frames :
    /\ "content" \notin DOMAIN chat.frames[f].arg
    /\ CallsMade(chat) = 1
    /\ chat.frames[f].end = ""
    /\ chat'.frames[f].end = "finished"
    => LET m == chat'.messages
           n == Len(m)
       IN  /\ n >= 2
           /\ m[n - 1] = chat.frames[f].arg
           /\ m[n].id = chat.frames[f].aid
           /\ m[n].role = "assistant"
           /\ m[n].status = "ready"

C22_RegenerateReload ==
  [][RegenerateRestarts /\ ReloadRestarts /\ RestartFinishes]_vars

(***************************************************************************)
(* C20: malformed packets are absorbed: the operations a worker posts for  *)
(* a batch are those it posts for the batch without its packets that are   *)
(* not valid JSON or not a JSON object.                                    *)
(***************************************************************************)
WellFormed(pkt) == pkt.type \notin {"#malformed", "#null", "#number", "#array"}
C20_MalformedAbsorbed ==
  ba.posted =>
    ba.updates = processBatch(<<>>, SelectSeq(ba.batch, WellFormed), 2, NoFeatures).updates

(***************************************************************************)
(* C2: chunk-boundary independence of the FrameParser: once the whole      *)
(* input has been delivered, in whatever chunks, the packets posted equal  *)
(* the packets of the input fed whole.                                     *)
(***************************************************************************)
C2_ChunkIndependence == fpRest = <<>> => fpOut = FPWhole(fpInput)

(***************************************************************************)
(* C7: pool completeness under load: in a pool that has not been           *)
(* terminated no task is lost: a task whose promise is pending is queued   *)
(* or dispatched to a worker that still owes a reply, a queued task waits  *)
(* only while some worker owes a reply or a timeout is armed, and no       *)
(* promise settles twice; so once the workers have answered, every task    *)
(* submitted has settled exactly once.                                     *)
(***************************************************************************)
SettleCount(t) == Cardinality({i \in DOMAIN pool.settleLog : pool.settleLog[i] = t})
PoolOwes == (\E w \in pool.workers : pool.inbox[w] # <<>>) \/ pool.timers # {}
C7_Completeness ==
  ~pool.isTerminated =>
    /\ \A t \in DOMAIN pool.promise :
         /\ SettleCount(t) = (IF pool.promise[t] = "pending" THEN 0 ELSE 1)
         /\ pool.promise[t] = "pending" =>
              \/ t \in Range(pool.taskQueue)
              \/ \E w \in pool.workers :
                   t \in Range(pool.listeners[w]) /\ pool.inbox[w] # <<>>
    /\ pool.taskQueue # <<>> => PoolOwes
\* more tasks than workers were submitted, one waited in the queue, and all
\* of them have settled
C7_Witness ==
  /\ ~pool.isTerminated
  /\ Len(pool.promise) > Cardinality(pool.workers)
  /\ \A t \in DOMAIN pool.promise : pool.promise[t] # "pending"
  /\ \E t \in DOMAIN pool.promise : pool.promise[t] = "resolved" /\ pool.replyOf[t] = t
  /\ ~PoolOwes

(***************************************************************************)
(* C8: pool ordering: of two tasks keyed to the same message id, the one   *)
(* submitted first settles first.                                          *)
(***************************************************************************)
C8_SubmissionOrder ==
  \A a, b \in DOMAIN pool.promise :
    (a < b /\ pool.key[a] = pool.key[b] /\ pool.promise[b] # "pending")
      => pool.promise[a] # "pending"

(***************************************************************************)
(* C6: rate limiting: a call is admitted exactly when fewer than the       *)
(* ceiling of recorded timestamps t satisfy now - t < window; so from an   *)
(* empty limiter the first N calls are admitted, the next one inside the   *)
(* window is denied, and once the window has passed a call is admitted.    *)
(***************************************************************************)
C6_RateLimit ==
  /\ rlLast.called => (rlLast.ok <=> rlLast.inWindow < RATE_LIMIT_REQUESTS)
  /\ Len(requests) <= RATE_LIMIT_REQUESTS
  /\ rlLast.called /\ rlLast.ok => requests[Len(requests)] = now
  /\ rlLast.called /\ ~rlLast.ok => Len(requests) = RATE_LIMIT_REQUESTS

\* the limiter held N timestamps, the window has just passed for all of
\* them, and the call was admitted again
C6_Witness ==
  /\ rlLast.called /\ rlLast.ok
  /\ rlLast.before = RATE_LIMIT_REQUESTS
  /\ rlLast.inWindow = 0
  /\ now = RATE_LIMIT_WINDOW_MS

(***************************************************************************)
(* C31: retry applies only before content: a failure of an append whose    *)
(* assistant message already holds a part is not retried, and a message    *)
(* that holds a part is not discarded for a retry.                         *)
(***************************************************************************)
Filled(c, f) ==
  HasMessage(c, c.frames[f].aid) /\ MessageOf(c, c.frames[f].aid).parts # <<>>

C31_RetryBeforeContent ==
  [][\A f \in DOMAIN chat.frames :
       /\ (chat.frames[f].pc = "reading" /\ chat'.frames[f].pc = "backoff")
            => ~Filled(chat, f)
       /\ (chat.frames[f].pc = "backoff" /\ chat'.frames[f].end = "retried")
            => ~Filled(chat, f)]_vars

(***************************************************************************)
(* C32: worker bookkeeping: in a pool that has not been terminated the     *)
(* available set and the busy set are disjoint, together they hold every   *)
(* worker, and no worker has two dispatched tasks whose promises are still *)
(* pending.                                                                *)
(***************************************************************************)
BusySet(p) == {w \in DOMAIN p.busy : p.busy[w] # 0}
UnsettledOn(p, w) == {t \in Range(p.listeners[w]) : p.promise[t] = "pending"}

C32_Bookkeeping ==
  ~pool.isTerminated =>
    /\ Range(pool.available) \cap BusySet(pool) = {}
    /\ Range(pool.available) \cup BusySet(pool) = pool.workers
    /\ \A w \in pool.workers : Cardinality(UnsettledOn(pool, w)) <= 1

(***************************************************************************)
(* C33: result correlation: a task whose promise is resolved was resolved  *)
(* with the reply the worker made for that task, never with the reply made *)
(* for another task.                                                       *)
(***************************************************************************)
C33_ResultCorrelation ==
  \A t \in DOMAIN pool.promise :
    pool.promise[t] = "resolved" => pool.replyOf[t] = t

(***************************************************************************)
(* C34: loading ends: the session is never loading with no request in      *)
(* flight, that is with no call of append that has still to run its        *)
(* finally block.                                                          *)
(***************************************************************************)
InFlight(c) == {f \in DOMAIN c.frames : c.frames[f].pc # "done"}

C34_LoadingEnds == chat.isLoading => InFlight(chat) # {}

(***************************************************************************)
(* C35: loading flag and abort ownership: while a request issued by append *)
(* is in flight and has not been aborted, the session is loading and its   *)
(* abort controller is the one created for that request.                   *)
(***************************************************************************)
C35_AbortOwnership ==
  \A f \in DOMAIN chat.frames :
    chat.frames[f].pc \in {"fetch", "reading"} /\ ~Aborted(f)
      => chat.isLoading /\ chat.abortRef = chat.frames[f].ctl

(***************************************************************************)
(* C36: regenerate() and reload() are all-or-nothing: a call whose append  *)
(* is rejected, because the session is loading or the limiter denies,      *)
(* leaves the message list as it was.                                      *)
(***************************************************************************)
C36_AllOrNothing ==
  [][(\/ chat'.calls.regenerate # chat.calls.regenerate
      \/ chat'.calls.reload # chat.calls.reload)
     /\ ~WouldAdmit(chat)
       => chat'.messages = chat.messages]_vars

(***************************************************************************)
(* C37: no mutation after finalization: a message for which the finish     *)
(* callback has been invoked and whose status is ready is in the list,     *)
(* unchanged, after every step.                                            *)
(***************************************************************************)
Finished(c, m) ==
  m.status = "ready" /\ \E i \in DOMAIN c.cb.onFinish : c.cb.onFinish[i].id = m.id

C37_NoMutationAfterFinish ==
  [][\A i \in DOMAIN chat.messages :
       Finished(chat, chat.messages[i])
         => \E j \in DOMAIN chat'.messages : chat'.messages[j] = chat.messages[i]]_vars

(***************************************************************************)
(* C38: accumulation is independent of worker placement: when a worker     *)
(* answers the batch that holds the finish packet of a message, and the    *)
(* earlier batches of that message have been answered, the text operation  *)
(* in state done that it posts carries the concatenation of the text       *)
(* deltas of all the batches of the message, and afterwards no worker      *)
(* holds an accumulator entry for the message.                             *)
(***************************************************************************)
Answers(w) ==
  /\ chat.pool.inbox[w] # <<>>
  /\ \/ chat'.pool.inbox[w] = <<>>
     \/ Head(chat'.pool.inbox[w]) # Head(chat.pool.inbox[w])

RECURSIVE BatchesUpTo(_, _, _)
BatchesUpTo(taskData, aid, t) ==
  IF t = 0 THEN <<>>
  ELSE BatchesUpTo(taskData, aid, t - 1)
         \o (IF taskData[t].aid = aid THEN taskData[t].batch ELSE <<>>)

Waiting(c) == UNION {Range(c.pool.inbox[w]) : w \in c.pool.workers}

FinishAnswered(w) ==
  LET t == Head(chat.pool.inbox[w])
      d == chat.taskData[t]
      r == processBatch(chat.streamingStates[w], d.batch, d.aid, chat.cfg.features)
      all == Flatten(Deltas(BatchesUpTo(chat.taskData, d.aid, t)))
  IN  /\ \E i \in DOMAIN d.batch : d.batch[i].type = "finish"
      /\ \A u \in Waiting(chat) \ {t} : chat.taskData[u].aid # d.aid
      => /\ all # <<>> =>
              \E i \in DOMAIN r.updates :
                r.updates[i] = Update("text", Pkt("text", all, "done", ""))
         /\ \A v \in chat.pool.workers : d.aid \notin DOMAIN chat'.streamingStates[v]

C38_PlacementIndependence ==
  [][\A w \in chat.pool.workers : Answers(w) => FinishAnswered(w)]_vars

(***************************************************************************)
(* C39: every promise of execute() settles: a promise that is pending has  *)
(* something left that settles it: its task is queued in a pool that still *)
(* drains its queue, or its timeout is armed, or a worker that is alive    *)
(* owes it a reply that its listener awaits.                               *)
(***************************************************************************)
CanSettle(p, t) ==
  \/ t \in Range(p.taskQueue)
  \/ \E w \in p.workers : <<w, t>> \in p.timers
  \/ \E w \in p.workers : p.inbox[w] # <<>> /\ t \in Range(p.listeners[w])

C39_PromisesSettle ==
  \A t \in DOMAIN pool.promise : pool.promise[t] = "pending" => CanSettle(pool, t)

(***************************************************************************)
(* C40: clear() during an active stream: once clear() has returned and the *)
(* caller has made no further call, the messages, the error, the loading   *)
(* flag and the usage counters keep their cleared values.                  *)
(***************************************************************************)
C40_ClearedStays ==
  chat.calls.clear > 0 =>
    /\ chat.messages = <<>>
    /\ chat.error = "none"
    /\ ~chat.isLoading
    /\ chat.usage = 0
====
